---------------------------- MODULE Spec2Model ----------------------------
(***************************************************************************)
(* A model of ogdf::Graph (src/unnamed/part_000): the node / edge /        *)
(* adjacency-entry objects, the id counters and array table sizes, the     *)
(* registered arrays, and the edit operations.                             *)
(*                                                                         *)
(* Objects are addressed by handles (positive integers, Nil = nullptr).    *)
(* Every operation of the class is a pure operator from a graph record to  *)
(* a graph record, translated statement by statement; the actions apply    *)
(* them to the variables, which are the fields of the class.               *)
(***************************************************************************)
EXTENDS Integers, Sequences, FiniteSets, TLC

\* ------------------------------------------------------------------ bounds
MaxNodes == 3
MaxEdges == 2
MaxSeqId == 3
MaxEditNodes == 2
MaxEditEdges == 2
MaxEditId == 2
MaxGrowNodes == 17
MaxSplitNodes == 3
MaxSplitEdges == 3
MaxSplitId == 3
MaxHideNodes == 2
MaxHideEdges == 3
MaxHideId == 3
MaxCopyNodes == 2
MaxCopyEdges == 3
MaxCopyId == 3
MaxContractNodes == 3
MaxContractEdges == 3
MaxContractId == 3
MaxSplitNodeNodes == 3
MaxSplitNodeEdges == 3
MaxSplitNodeId == 3
MaxMoveNodes == 3
MaxMoveEdges == 2
MaxMoveId == 2
MaxClearNodes == 2
MaxClearEdges == 1
MaxClearId == 2
MaxCCNodes == 3
MaxCCEdges == 3
MaxCCId == 3
MaxCCTriNodes == 6
MaxCCTriEdges == 6
MaxThreads == 2
MaxThreadArrays == 2
MaxThreadIds == 17
MaxCounterNodes == 2
MaxCounterEdges == 1
MaxCounterId == 3
MaxResetNodes == 2
MaxResetEdges == 2
MaxResetId == 3
MaxGenusNodes == 3
MaxGenusEdges == 3
MaxGenusId == 3
MaxInitNodes == 3
MaxInitEdges == 2
MaxInitId == 3
MaxNotifyNodes == 3
MaxNotifyEdges == 2
MaxNotifyId == 3
MaxHideDelNodes == 2
MaxHideDelEdges == 2
MaxHideDelId == 3
MaxActiveNodes == 3
MaxActiveEdges == 2
MaxActiveId == 3
MaxIdNodes == 1
MaxIdEdges == 1
MaxIdCount == 17
MaxArrays == 1

\* ------------------------------------------------- constants of the source
MIN_NODE_TABLE_SIZE == 16
MIN_EDGE_TABLE_SIZE == 16

Nil == 0

VARIABLES
    nodes,                  \* Graph::nodes, the list of nodes
    edges,                  \* Graph::edges, the list of edges
    m_hiddenEdges,          \* the list of hidden edges
    n_id,                   \* NodeElement::m_id
    m_indeg,                \* NodeElement::m_indeg
    m_outdeg,               \* NodeElement::m_outdeg
    adjEdges,               \* NodeElement::adjEdges, the rotation
    e_id,                   \* EdgeElement::m_id
    m_src,                  \* EdgeElement::m_src
    m_tgt,                  \* EdgeElement::m_tgt
    m_adjSrc,               \* EdgeElement::m_adjSrc
    m_adjTgt,               \* EdgeElement::m_adjTgt
    a_id,                   \* AdjElement::m_id
    m_node,                 \* AdjElement::m_node
    m_edge,                 \* AdjElement::m_edge
    m_twin,                 \* AdjElement::m_twin
    m_nodeIdCount,
    m_edgeIdCount,
    m_nodeArrayTableSize,
    m_edgeArrayTableSize,
    m_regNodeArrays,        \* registered node arrays (size and contents)
    m_regEdgeArrays,
    m_regAdjArrays,
    notes,                  \* the notifications the last call delivered, in order
    lastOp,                 \* the last call and its arguments
    snap,                   \* the graph before a split / before the first hide
    ub,                     \* a call dereferenced a deleted object
    trace,                  \* whether notes, lastOp and snap are kept
    m_mutexRegArrays,       \* the thread that holds the mutex, or Nil
    pc,                     \* per thread: where it is in a call made in steps
    it                      \* per thread: the array its loop over a list is at

vars == << nodes, edges, m_hiddenEdges, n_id, m_indeg, m_outdeg, adjEdges,
           e_id, m_src, m_tgt, m_adjSrc, m_adjTgt, a_id, m_node, m_edge, m_twin,
           m_nodeIdCount, m_edgeIdCount, m_nodeArrayTableSize, m_edgeArrayTableSize,
           m_regNodeArrays, m_regEdgeArrays, m_regAdjArrays,
           notes, lastOp, snap, ub, trace, m_mutexRegArrays, pc, it >>

\* The graph object as one record (notes: the notifications delivered so far
\* by the call being evaluated).
Cur ==
    [ nodes |-> nodes, edges |-> edges, m_hiddenEdges |-> m_hiddenEdges,
      n_id |-> n_id, m_indeg |-> m_indeg, m_outdeg |-> m_outdeg, adjEdges |-> adjEdges,
      e_id |-> e_id, m_src |-> m_src, m_tgt |-> m_tgt,
      m_adjSrc |-> m_adjSrc, m_adjTgt |-> m_adjTgt,
      a_id |-> a_id, m_node |-> m_node, m_edge |-> m_edge, m_twin |-> m_twin,
      m_nodeIdCount |-> m_nodeIdCount, m_edgeIdCount |-> m_edgeIdCount,
      m_nodeArrayTableSize |-> m_nodeArrayTableSize,
      m_edgeArrayTableSize |-> m_edgeArrayTableSize,
      m_regNodeArrays |-> m_regNodeArrays, m_regEdgeArrays |-> m_regEdgeArrays,
      m_regAdjArrays |-> m_regAdjArrays,
      notes |-> << >> ]

\* ------------------------------------------------------------ list helpers
Range(s) == { s[i] : i \in 1..Len(s) }

Pos(s, x) == CHOOSE i \in 1..Len(s) : s[i] = x

Last(s) == s[Len(s)]

\* GraphList::pushBack
pushBack(s, x) == Append(s, x)

\* GraphList::del / delPure: unlink x
del(s, x) == SelectSeq(s, LAMBDA y : y # x)

\* GraphList::insertAfter(x, y): x directly behind y
insertAfter(s, x, y) ==
    LET p == Pos(s, y) IN SubSeq(s, 1, p) \o << x >> \o SubSeq(s, p + 1, Len(s))

\* GraphList::insertBefore(x, y): x directly in front of y
insertBefore(s, x, y) ==
    LET p == Pos(s, y) IN SubSeq(s, 1, p - 1) \o << x >> \o SubSeq(s, p, Len(s))

\* f without x in its domain (the object is freed)
Drop(f, x) == [ y \in DOMAIN f \ {x} |-> f[y] ]

\* the smallest handle not in use
Fresh(used) == CHOOSE h \in 1..(Cardinality(used) + 1) : h \notin used

\* ----------------------------------------------------- registered arrays
\* An array is [size, data]: data maps the indices written to their values,
\* every other slot holds the default.
NewArray(size) == [ size |-> size, data |-> << >> ]

\* NodeArrayBase / EdgeArrayBase / AdjEntryArrayBase::enlargeTable
enlargeTable(a, newTableSize) == [ a EXCEPT !.size = newTableSize ]

\* ...::reinit
reinit(a, initTableSize) == NewArray(initTableSize)

\* AdjEntryArrayBase::resetIndex: the slot newIndex takes what oldIndex holds
resetIndex(a, newIndex, oldIndex) ==
    [ a EXCEPT !.data =
        IF oldIndex \in DOMAIN a.data
        THEN [ i \in DOMAIN a.data \cup {newIndex} |->
                 IF i = newIndex THEN a.data[oldIndex] ELSE a.data[i] ]
        ELSE [ i \in DOMAIN a.data \ {newIndex} |-> a.data[i] ] ]

\* ----------------------------------------------------------- notifications
\* One delivered notification: its kind, its arguments, and the graph as the
\* receiver sees it at that moment.
Note(S, kind, x, y) ==
    [ S EXCEPT !.notes = Append(@, [ kind |-> kind, x |-> x, y |-> y,
                                      at |-> [ S EXCEPT !.notes = << >> ] ]) ]

\* for(NodeArrayBase *nab : m_regNodeArrays) nab->enlargeTable(size)
enlargeNodeArrays(S) ==
    Note([ S EXCEPT !.m_regNodeArrays =
              [ i \in DOMAIN @ |-> enlargeTable(@[i], S.m_nodeArrayTableSize) ] ],
         "enlargeNode", S.m_nodeArrayTableSize, Nil)

\* the two loops over m_regEdgeArrays and m_regAdjArrays
enlargeEdgeArrays(S) ==
    Note([ S EXCEPT
             !.m_regEdgeArrays =
                [ i \in DOMAIN @ |-> enlargeTable(@[i], S.m_edgeArrayTableSize) ],
             !.m_regAdjArrays =
                [ i \in DOMAIN @ |-> enlargeTable(@[i], 2 * S.m_edgeArrayTableSize) ] ],
         "enlargeEdge", S.m_edgeArrayTableSize, Nil)

\* Graph::reinitArrays
reinitArrays(S) ==
    Note([ S EXCEPT
             !.m_regNodeArrays =
                [ i \in DOMAIN @ |-> reinit(@[i], S.m_nodeArrayTableSize) ],
             !.m_regEdgeArrays =
                [ i \in DOMAIN @ |-> reinit(@[i], S.m_edgeArrayTableSize) ],
             !.m_regAdjArrays =
                [ i \in DOMAIN @ |-> reinit(@[i], 2 * S.m_edgeArrayTableSize) ] ],
         "reinit", S.m_nodeArrayTableSize, S.m_edgeArrayTableSize)

\* Graph::resetAdjEntryIndex
resetAdjEntryIndex(S, newIndex, oldIndex) ==
    Note([ S EXCEPT !.m_regAdjArrays =
              [ i \in DOMAIN @ |-> resetIndex(@[i], newIndex, oldIndex) ] ],
         "resetIndex", newIndex, oldIndex)

\* Graph::nextPower2
RECURSIVE nextPower2(_, _)
nextPower2(start, idCount) ==
    IF start <= idCount THEN nextPower2(2 * start, idCount) ELSE start

\* --------------------------------------------------------- object creation
\* OGDF_NEW NodeElement(id): degrees 0, an empty rotation
NodeElement(S, v, id) ==
    [ S EXCEPT !.n_id = @ @@ (v :> id), !.m_indeg = @ @@ (v :> 0),
               !.m_outdeg = @ @@ (v :> 0), !.adjEdges = @ @@ (v :> << >>) ]

\* OGDF_NEW AdjElement(v): m_node = v, m_edge = m_twin = nullptr, m_id = 0
AdjElementAt(S, a, v) ==
    [ S EXCEPT !.a_id = @ @@ (a :> 0), !.m_node = @ @@ (a :> v),
               !.m_edge = @ @@ (a :> Nil), !.m_twin = @ @@ (a :> Nil) ]

\* OGDF_NEW AdjElement(e, id): m_edge = e, m_node = m_twin = nullptr
AdjElementOf(S, a, e, id) ==
    [ S EXCEPT !.a_id = @ @@ (a :> id), !.m_node = @ @@ (a :> Nil),
               !.m_edge = @ @@ (a :> e), !.m_twin = @ @@ (a :> Nil) ]

\* OGDF_NEW EdgeElement(v, w, adjSrc, adjTgt, id)
EdgeElement(S, e, v, w, adjSrc, adjTgt, id) ==
    [ S EXCEPT !.e_id = @ @@ (e :> id), !.m_src = @ @@ (e :> v), !.m_tgt = @ @@ (e :> w),
               !.m_adjSrc = @ @@ (e :> adjSrc), !.m_adjTgt = @ @@ (e :> adjTgt) ]

\* delete of a node / an edge / an adjacency entry: its fields are gone
FreeNode(S, v) ==
    [ S EXCEPT !.n_id = Drop(@, v), !.m_indeg = Drop(@, v),
               !.m_outdeg = Drop(@, v), !.adjEdges = Drop(@, v) ]

FreeEdge(S, e) ==
    [ S EXCEPT !.e_id = Drop(@, e), !.m_src = Drop(@, e), !.m_tgt = Drop(@, e),
               !.m_adjSrc = Drop(@, e), !.m_adjTgt = Drop(@, e) ]

FreeAdj(S, a) ==
    [ S EXCEPT !.a_id = Drop(@, a), !.m_node = Drop(@, a),
               !.m_edge = Drop(@, a), !.m_twin = Drop(@, a) ]

NodeHandles(S) == DOMAIN S.n_id
EdgeHandles(S) == DOMAIN S.e_id
AdjHandles(S) == DOMAIN S.a_id

\* the address of a new node: not that of a live node, nor one a (hidden)
\* edge still points to
FreshNode(S) ==
    Fresh(NodeHandles(S) \cup { S.m_src[e] : e \in EdgeHandles(S) }
                         \cup { S.m_tgt[e] : e \in EdgeHandles(S) })

\* newNode() that tests the counter against the table one insertion late
newNode_growsLate(S) ==
    LET S1 == IF S.m_nodeIdCount > S.m_nodeArrayTableSize
              THEN enlargeNodeArrays([ S EXCEPT !.m_nodeArrayTableSize = 2 * @ ])
              ELSE S
        v  == FreshNode(S1)
        S2 == NodeElement(S1, v, S1.m_nodeIdCount)
        S3 == [ S2 EXCEPT !.m_nodeIdCount = @ + 1, !.nodes = pushBack(@, v) ]
    IN  Note(S3, "nodeAdded", v, Nil)

\* ------------------------------------------------------------------ newNode
\* node Graph::newNode()
newNode(S) ==
    LET S1 == IF S.m_nodeIdCount = S.m_nodeArrayTableSize
              THEN enlargeNodeArrays([ S EXCEPT !.m_nodeArrayTableSize = 2 * @ ])
              ELSE S
        v  == FreshNode(S1)
        S2 == NodeElement(S1, v, S1.m_nodeIdCount)
        S3 == [ S2 EXCEPT !.m_nodeIdCount = @ + 1, !.nodes = pushBack(@, v) ]
    IN  Note(S3, "nodeAdded", v, Nil)

\* newNode(int index) that forgets to grow the table
newNodeIndex_noGrow(S, index) ==
    LET S1 == IF index >= S.m_nodeIdCount
              THEN [ S EXCEPT !.m_nodeIdCount = index + 1 ]
              ELSE S
        v  == FreshNode(S1)
        S2 == NodeElement(S1, v, index)
        S3 == [ S2 EXCEPT !.nodes = pushBack(@, v) ]
    IN  Note(S3, "nodeAdded", v, Nil)

\* newNode(int index) that sets the counter to index + 1 whatever it was
newNodeIndex_setsCounter(S, index) ==
    LET T  == [ S EXCEPT !.m_nodeIdCount = index + 1 ]
        S1 == IF index >= T.m_nodeArrayTableSize
              THEN enlargeNodeArrays(
                     [ T EXCEPT !.m_nodeArrayTableSize = nextPower2(@, index) ])
              ELSE T
        v  == FreshNode(S1)
        S2 == NodeElement(S1, v, index)
        S3 == [ S2 EXCEPT !.nodes = pushBack(@, v) ]
    IN  Note(S3, "nodeAdded", v, Nil)

\* node Graph::newNode(int index)
newNodeIndex(S, index) ==
    LET S1 == IF index >= S.m_nodeIdCount
              THEN LET T == [ S EXCEPT !.m_nodeIdCount = index + 1 ]
                   IN  IF index >= T.m_nodeArrayTableSize
                       THEN enlargeNodeArrays(
                              [ T EXCEPT !.m_nodeArrayTableSize = nextPower2(@, index) ])
                       ELSE T
              ELSE S
        v  == FreshNode(S1)
        S2 == NodeElement(S1, v, index)
        S3 == [ S2 EXCEPT !.nodes = pushBack(@, v) ]
    IN  Note(S3, "nodeAdded", v, Nil)

\* node Graph::pureNewNode()
pureNewNode(S) ==
    LET v  == FreshNode(S)
        S2 == NodeElement(S, v, S.m_nodeIdCount)
        S3 == [ S2 EXCEPT !.m_nodeIdCount = @ + 1, !.nodes = pushBack(@, v) ]
    IN  Note(S3, "nodeAdded", v, Nil)

\* ------------------------------------------------------------------ newEdge
\* edge Graph::createEdgeElement(node v, node w, adjEntry adjSrc, adjEntry adjTgt)
createEdgeElement(S, v, w, adjSrc, adjTgt) ==
    LET S1 == IF S.m_edgeIdCount = S.m_edgeArrayTableSize
              THEN enlargeEdgeArrays([ S EXCEPT !.m_edgeArrayTableSize = 2 * @ ])
              ELSE S
        S2 == [ S1 EXCEPT !.a_id[adjSrc] = 2 * S1.m_edgeIdCount,
                          !.a_id[adjTgt] = 2 * S1.m_edgeIdCount + 1 ]
        e  == Fresh(EdgeHandles(S2))
        S3 == EdgeElement(S2, e, v, w, adjSrc, adjTgt, S2.m_edgeIdCount)
        S4 == [ S3 EXCEPT !.m_edgeIdCount = @ + 1, !.edges = pushBack(@, e) ]
    IN  Note(S4, "edgeAdded", e, Nil)

\* return adjSrc->m_edge = adjTgt->m_edge = e;
setEdgeOfAdjs(S, adjSrc, adjTgt, e) ==
    [ S EXCEPT !.m_edge[adjSrc] = e, !.m_edge[adjTgt] = e ]

\* adjSrc->m_twin = adjTgt; adjTgt->m_twin = adjSrc;
setTwins(S, adjSrc, adjTgt) ==
    [ S EXCEPT !.m_twin[adjSrc] = adjTgt, !.m_twin[adjTgt] = adjSrc ]

\* newEdge(v, w) that leaves the in-degree of w as it was
newEdge_keepsIndeg(S, v, w) ==
    LET adjSrc == Fresh(AdjHandles(S))
        S1 == [ AdjElementAt(S, adjSrc, v) EXCEPT
                  !.adjEdges[v] = pushBack(@, adjSrc), !.m_outdeg[v] = @ + 1 ]
        adjTgt == Fresh(AdjHandles(S1))
        S2 == [ AdjElementAt(S1, adjTgt, w) EXCEPT
                  !.adjEdges[w] = pushBack(@, adjTgt) ]
        S3 == setTwins(S2, adjSrc, adjTgt)
        S4 == createEdgeElement(S3, v, w, adjSrc, adjTgt)
    IN  setEdgeOfAdjs(S4, adjSrc, adjTgt, Last(S4.edges))

\* edge Graph::newEdge(node v, node w)
newEdge(S, v, w) ==
    LET adjSrc == Fresh(AdjHandles(S))
        S1 == [ AdjElementAt(S, adjSrc, v) EXCEPT
                  !.adjEdges[v] = pushBack(@, adjSrc), !.m_outdeg[v] = @ + 1 ]
        adjTgt == Fresh(AdjHandles(S1))
        S2 == [ AdjElementAt(S1, adjTgt, w) EXCEPT
                  !.adjEdges[w] = pushBack(@, adjTgt), !.m_indeg[w] = @ + 1 ]
        S3 == setTwins(S2, adjSrc, adjTgt)
        S4 == createEdgeElement(S3, v, w, adjSrc, adjTgt)
    IN  setEdgeOfAdjs(S4, adjSrc, adjTgt, Last(S4.edges))

\* newEdge(v, w, index) that moves the counter but forgets to grow the table
newEdgeIndex_noGrow(S, v, w, index) ==
    LET adjSrc == Fresh(AdjHandles(S))
        S1 == [ AdjElementAt(S, adjSrc, v) EXCEPT
                  !.adjEdges[v] = pushBack(@, adjSrc), !.m_outdeg[v] = @ + 1 ]
        adjTgt == Fresh(AdjHandles(S1))
        S2 == [ AdjElementAt(S1, adjTgt, w) EXCEPT
                  !.adjEdges[w] = pushBack(@, adjTgt), !.m_indeg[w] = @ + 1 ]
        S3 == setTwins(S2, adjSrc, adjTgt)
        S4 == IF index >= S3.m_edgeIdCount
              THEN [ S3 EXCEPT !.m_edgeIdCount = index + 1 ]
              ELSE S3
        S5 == [ S4 EXCEPT !.a_id[adjSrc] = 2 * index, !.a_id[adjTgt] = 2 * index + 1 ]
        e  == Fresh(EdgeHandles(S5))
        S6 == EdgeElement(S5, e, v, w, adjSrc, adjTgt, index)
        S7 == Note([ S6 EXCEPT !.edges = pushBack(@, e) ], "edgeAdded", e, Nil)
    IN  setEdgeOfAdjs(S7, adjSrc, adjTgt, e)

\* edge Graph::newEdge(node v, node w, int index)
newEdgeIndex(S, v, w, index) ==
    LET adjSrc == Fresh(AdjHandles(S))
        S1 == [ AdjElementAt(S, adjSrc, v) EXCEPT
                  !.adjEdges[v] = pushBack(@, adjSrc), !.m_outdeg[v] = @ + 1 ]
        adjTgt == Fresh(AdjHandles(S1))
        S2 == [ AdjElementAt(S1, adjTgt, w) EXCEPT
                  !.adjEdges[w] = pushBack(@, adjTgt), !.m_indeg[w] = @ + 1 ]
        S3 == setTwins(S2, adjSrc, adjTgt)
        S4 == IF index >= S3.m_edgeIdCount
              THEN LET T == [ S3 EXCEPT !.m_edgeIdCount = index + 1 ]
                   IN  IF index >= T.m_edgeArrayTableSize
                       THEN enlargeEdgeArrays(
                              [ T EXCEPT !.m_edgeArrayTableSize = nextPower2(@, index) ])
                       ELSE T
              ELSE S3
        S5 == [ S4 EXCEPT !.a_id[adjSrc] = 2 * index, !.a_id[adjTgt] = 2 * index + 1 ]
        e  == Fresh(EdgeHandles(S5))
        S6 == EdgeElement(S5, e, v, w, adjSrc, adjTgt, index)
        S7 == Note([ S6 EXCEPT !.edges = pushBack(@, e) ], "edgeAdded", e, Nil)
    IN  setEdgeOfAdjs(S7, adjSrc, adjTgt, e)

\* insertAfter / insertBefore, by the Direction argument
insertDir(s, x, y, dir) ==
    IF dir = "after" THEN insertAfter(s, x, y) ELSE insertBefore(s, x, y)

\* edge Graph::newEdge(adjEntry adjStart, adjEntry adjEnd, Direction dir)
newEdgeAdjAdj(S, adjStart, adjEnd, dir) ==
    LET v == S.m_node[adjStart]
        w == S.m_node[adjEnd]
        adjTgt == Fresh(AdjHandles(S))
        S1 == AdjElementAt(S, adjTgt, w)
        adjSrc == Fresh(AdjHandles(S1))
        S2 == AdjElementAt(S1, adjSrc, v)
        S3 == [ S2 EXCEPT !.adjEdges[w] = insertDir(@, adjTgt, adjEnd, dir) ]
        S4 == [ S3 EXCEPT !.adjEdges[v] = insertDir(@, adjSrc, adjStart, dir) ]
        S5 == [ S4 EXCEPT !.m_indeg[w] = @ + 1 ]
        S6 == [ S5 EXCEPT !.m_outdeg[v] = @ + 1 ]
        S7 == setTwins(S6, adjSrc, adjTgt)
        S8 == createEdgeElement(S7, v, w, adjSrc, adjTgt)
    IN  setEdgeOfAdjs(S8, adjSrc, adjTgt, Last(S8.edges))

\* edge Graph::newEdge(node v, adjEntry adjEnd)
newEdgeNodeAdj(S, v, adjEnd) ==
    LET w == S.m_node[adjEnd]
        adjTgt == Fresh(AdjHandles(S))
        S1 == [ AdjElementAt(S, adjTgt, w) EXCEPT
                  !.adjEdges[w] = insertAfter(@, adjTgt, adjEnd), !.m_indeg[w] = @ + 1 ]
        adjSrc == Fresh(AdjHandles(S1))
        S2 == [ AdjElementAt(S1, adjSrc, v) EXCEPT
                  !.adjEdges[v] = pushBack(@, adjSrc), !.m_outdeg[v] = @ + 1 ]
        S3 == setTwins(S2, adjSrc, adjTgt)
        S4 == createEdgeElement(S3, v, w, adjSrc, adjTgt)
    IN  setEdgeOfAdjs(S4, adjSrc, adjTgt, Last(S4.edges))

\* edge Graph::newEdge(adjEntry adjStart, node v)
newEdgeAdjNode(S, adjStart, v) ==
    LET w == S.m_node[adjStart]
        adjSrc == Fresh(AdjHandles(S))
        S1 == [ AdjElementAt(S, adjSrc, w) EXCEPT
                  !.adjEdges[w] = insertAfter(@, adjSrc, adjStart), !.m_outdeg[w] = @ + 1 ]
        adjTgt == Fresh(AdjHandles(S1))
        S2 == [ AdjElementAt(S1, adjTgt, v) EXCEPT
                  !.adjEdges[v] = pushBack(@, adjTgt), !.m_indeg[v] = @ + 1 ]
        S3 == setTwins(S2, adjSrc, adjTgt)
        S4 == createEdgeElement(S3, w, v, adjSrc, adjTgt)
    IN  setEdgeOfAdjs(S4, adjSrc, adjTgt, Last(S4.edges))

\* --------------------------------------------------------- delNode, delEdge
\* delEdge without "tgt->m_indeg--"
delEdge_keepsIndeg(S, e) ==
    LET S0  == Note(S, "edgeDeleted", e, Nil)
        src == S0.m_src[e]
        tgt == S0.m_tgt[e]
        aS  == S0.m_adjSrc[e]
        aT  == S0.m_adjTgt[e]
        S1  == [ S0 EXCEPT !.adjEdges[src] = del(@, aS), !.m_outdeg[src] = @ - 1 ]
        S2  == [ S1 EXCEPT !.adjEdges[tgt] = del(@, aT) ]
        S3  == [ S2 EXCEPT !.edges = del(@, e) ]
    IN  FreeEdge(FreeAdj(FreeAdj(S3, aS), aT), e)

\* void Graph::delEdge(edge e)
delEdge(S, e) ==
    LET S0  == Note(S, "edgeDeleted", e, Nil)
        src == S0.m_src[e]
        tgt == S0.m_tgt[e]
        aS  == S0.m_adjSrc[e]
        aT  == S0.m_adjTgt[e]
        S1  == [ S0 EXCEPT !.adjEdges[src] = del(@, aS), !.m_outdeg[src] = @ - 1 ]
        S2  == [ S1 EXCEPT !.adjEdges[tgt] = del(@, aT), !.m_indeg[tgt] = @ - 1 ]
        S3  == [ S2 EXCEPT !.edges = del(@, e) ]
    IN  FreeEdge(FreeAdj(FreeAdj(S3, aS), aT), e)

\* while((adj = adjEdges.head()) != nullptr) Graph::delEdge(adj->m_edge);
RECURSIVE delAdjEdges(_, _)
delAdjEdges(S, v) ==
    IF S.adjEdges[v] = << >> THEN S
    ELSE delAdjEdges(delEdge(S, S.m_edge[Head(S.adjEdges[v])]), v)

\* delNode(v) telling the observers only after the edges at v are deleted
delNode_notifiesLast(S, v) ==
    LET S1 == delAdjEdges(S, v)
        S2 == Note(S1, "nodeDeleted", v, Nil)
    IN  FreeNode([ S2 EXCEPT !.nodes = del(@, v) ], v)

\* delNode(v) without the loop that deletes the edges at v
delNode_keepsEdges(S, v) ==
    LET S0 == Note(S, "nodeDeleted", v, Nil)
    IN  FreeNode([ S0 EXCEPT !.nodes = del(@, v) ], v)

\* void Graph::delNode(node v)
delNode(S, v) ==
    LET S0 == Note(S, "nodeDeleted", v, Nil)
        S1 == delAdjEdges(S0, v)
    IN  FreeNode([ S1 EXCEPT !.nodes = del(@, v) ], v)

\* --------------------------------------------------------------------- move
\* GraphList::move(adj, newList): unlink adj from the list of v, append it to
\* the list of w
listMove(S, adj, v, w) ==
    LET S1 == [ S EXCEPT !.adjEdges[v] = del(@, adj) ]
    IN  [ S1 EXCEPT !.adjEdges[w] = pushBack(@, adj) ]

\* GraphList::move(adj, newList, adjRef, dir): unlink adj from the list of v,
\* insert it into the list of w after / before adjRef
listMoveDir(S, adj, v, w, adjRef, dir) ==
    LET S1 == [ S EXCEPT !.adjEdges[v] = del(@, adj) ]
    IN  [ S1 EXCEPT !.adjEdges[w] = insertDir(@, adj, adjRef, dir) ]

\* void Graph::move(edge e, adjEntry adjSrc, Direction dirSrc,
\*                  adjEntry adjTgt, Direction dirTgt)
move(S, e, adjSrc, dirSrc, adjTgt, dirTgt) ==
    LET v    == S.m_node[adjSrc]
        w    == S.m_node[adjTgt]
        adj1 == S.m_adjSrc[e]
        adj2 == S.m_adjTgt[e]
        S1   == listMoveDir(S, adj1, S.m_src[e], v, adjSrc, dirSrc)
        S2   == listMoveDir(S1, adj2, S1.m_tgt[e], w, adjTgt, dirTgt)
        S3   == [ S2 EXCEPT !.m_outdeg[S2.m_src[e]] = @ - 1 ]
        S4   == [ S3 EXCEPT !.m_indeg[S3.m_tgt[e]] = @ - 1 ]
        S5   == [ S4 EXCEPT !.m_node[adj1] = v, !.m_src[e] = v,
                            !.m_node[adj2] = w, !.m_tgt[e] = w ]
        S6   == [ S5 EXCEPT !.m_outdeg[v] = @ + 1 ]
    IN  [ S6 EXCEPT !.m_indeg[w] = @ + 1 ]

\* void Graph::moveTarget(edge e, node v)
moveTarget_keepsIndeg(S, e, v) ==
    LET adj == S.m_adjTgt[e]
        S1  == listMove(S, adj, S.m_tgt[e], v)
    IN  [ S1 EXCEPT !.m_node[adj] = v, !.m_tgt[e] = v ]

moveTarget(S, e, v) ==
    LET adj == S.m_adjTgt[e]
        S1  == listMove(S, adj, S.m_tgt[e], v)
        S2  == [ S1 EXCEPT !.m_indeg[S1.m_tgt[e]] = @ - 1 ]
        S3  == [ S2 EXCEPT !.m_node[adj] = v, !.m_tgt[e] = v ]
    IN  [ S3 EXCEPT !.m_indeg[v] = @ + 1 ]

\* void Graph::moveTarget(edge e, adjEntry adjTgt, Direction dir)
moveTargetAdj(S, e, adjTgt, dir) ==
    LET v   == S.m_node[adjTgt]
        adj == S.m_adjTgt[e]
        S1  == listMoveDir(S, adj, S.m_tgt[e], v, adjTgt, dir)
        S2  == [ S1 EXCEPT !.m_indeg[S1.m_tgt[e]] = @ - 1 ]
        S3  == [ S2 EXCEPT !.m_node[adj] = v, !.m_tgt[e] = v ]
    IN  [ S3 EXCEPT !.m_indeg[v] = @ + 1 ]

\* void Graph::moveSource(edge e, node v)
moveSource(S, e, v) ==
    LET adj == S.m_adjSrc[e]
        S1  == listMove(S, adj, S.m_src[e], v)
        S2  == [ S1 EXCEPT !.m_outdeg[S1.m_src[e]] = @ - 1 ]
        S3  == [ S2 EXCEPT !.m_node[adj] = v, !.m_src[e] = v ]
    IN  [ S3 EXCEPT !.m_outdeg[v] = @ + 1 ]

\* void Graph::moveSource(edge e, adjEntry adjSrc, Direction dir)
moveSourceAdj(S, e, adjSrc, dir) ==
    LET v   == S.m_node[adjSrc]
        adj == S.m_adjSrc[e]
        S1  == listMoveDir(S, adj, S.m_src[e], v, adjSrc, dir)
        S2  == [ S1 EXCEPT !.m_outdeg[S1.m_src[e]] = @ - 1 ]
        S3  == [ S2 EXCEPT !.m_node[adj] = v, !.m_src[e] = v ]
    IN  [ S3 EXCEPT !.m_outdeg[v] = @ + 1 ]

\* void Graph::moveAdj(adjEntry adj, node w)
moveAdj(S, adj, w) ==
    LET v  == S.m_node[adj]
        e  == S.m_edge[adj]
        S1 == [ listMove(S, adj, v, w) EXCEPT !.m_node[adj] = w ]
    IN  IF v = S1.m_src[e]
        THEN LET S2 == [ S1 EXCEPT !.m_outdeg[v] = @ - 1, !.m_src[e] = w ]
             IN  [ S2 EXCEPT !.m_outdeg[w] = @ + 1 ]
        ELSE LET S2 == [ S1 EXCEPT !.m_indeg[v] = @ - 1, !.m_tgt[e] = w ]
             IN  [ S2 EXCEPT !.m_indeg[w] = @ + 1 ]

\* AdjElement::cyclicSucc(): the next entry of the rotation adj sits in, the
\* head after the last
cyclicSucc(S, adj) ==
    LET s == S.adjEdges[S.m_node[adj]]
        i == Pos(s, adj)
    IN  IF i < Len(s) THEN s[i + 1] ELSE s[1]

\* AdjElement::twinNode()
twinNode(S, adj) == S.m_node[S.m_twin[adj]]

\* contract, lines 1357-1362: the edge of adj is re-seated before adjSrc
contract_splice(S, adj, adjSrc, w) ==
    LET eAdj == S.m_edge[adj]
    IN  IF w = S.m_src[eAdj]
        THEN moveSourceAdj(S, eAdj, adjSrc, "before")
        ELSE moveTargetAdj(S, eAdj, adjSrc, "before")

\* contract, lines 1353-1362: one pass of the loop body
contract_step(S, adj, adjSrc, v, w) ==
    IF twinNode(S, adj) = v THEN S ELSE contract_splice(S, adj, adjSrc, w)

\* contract, lines 1351-1363: the loop from adj until adjTgt is met; the
\* successor is read before the body runs
RECURSIVE contract_loop(_, _, _, _, _, _)
contract_loop(S, adj, adjSrc, adjTgt, v, w) ==
    IF adj = adjTgt
    THEN S
    ELSE contract_loop(contract_step(S, adj, adjSrc, v, w), cyclicSucc(S, adj),
                       adjSrc, adjTgt, v, w)

\* node Graph::contract(edge e)
contract(S, e) ==
    LET adjSrc == S.m_adjSrc[e]
        adjTgt == S.m_adjTgt[e]
        S1     == contract_loop(S, cyclicSucc(S, adjTgt), adjSrc, adjTgt,
                                S.m_src[e], S.m_tgt[e])
    IN  delNode(S1, S1.m_node[adjTgt])

\* splitNode, lines 1332-1335: the entries from adj up to adjStartLeft go to
\* w; the successor is read before the entry is moved
RECURSIVE splitNode_loop(_, _, _, _)
splitNode_loop(S, adj, adjStartLeft, w) ==
    IF adj = adjStartLeft
    THEN S
    ELSE splitNode_loop(moveAdj(S, adj, w), cyclicSucc(S, adj), adjStartLeft, w)

\* splitNode, lines 1331-1337, on the graph S1 that has the new node w last
splitNode_withNode(S1, adjStartLeft, adjStartRight) ==
    newEdgeAdjAdj(splitNode_loop(S1, adjStartRight, adjStartLeft, Last(S1.nodes)),
                  adjStartLeft, adjStartRight, "before")

\* node Graph::splitNode(adjEntry adjStartLeft, adjEntry adjStartRight)
splitNode(S, adjStartLeft, adjStartRight) ==
    splitNode_withNode(newNode(S), adjStartLeft, adjStartRight)

\* split, lines 807-808: u->m_indeg = u->m_outdeg = 1 for the node u that
\* newNode() has just made
split_degrees_unset(S1) == S1

split_degrees(S1) ==
    [ S1 EXCEPT !.m_indeg[Last(S1.nodes)] = 1, !.m_outdeg[Last(S1.nodes)] = 1 ]

\* the first new entry at u without the line adjTgt->m_id = e->m_adjTgt->m_id:
\* it keeps the id 0 it was built with
split_adjTgt_noIdHandover(S2, e, u, adjTgt) ==
    [ AdjElementAt(S2, adjTgt, u) EXCEPT
        !.m_edge[adjTgt] = e,
        !.m_twin[adjTgt] = S2.m_adjSrc[e],
        !.m_twin[S2.m_adjSrc[e]] = adjTgt,
        !.adjEdges[u] = pushBack(@, adjTgt) ]

\* split, lines 810-818: the entry adjTgt at u, the new target side of e,
\* takes the id of the entry it replaces
split_adjTgt(S2, e, u, adjTgt) ==
    [ AdjElementAt(S2, adjTgt, u) EXCEPT
        !.m_edge[adjTgt] = e,
        !.m_twin[adjTgt] = S2.m_adjSrc[e],
        !.m_twin[S2.m_adjSrc[e]] = adjTgt,
        !.a_id[adjTgt] = S2.a_id[S2.m_adjTgt[e]],
        !.adjEdges[u] = pushBack(@, adjTgt) ]

\* split, lines 820-822: the entry adjSrc at u, the source side of e2
split_adjSrc(S3, e, u, adjSrc) ==
    [ AdjElementAt(S3, adjSrc, u) EXCEPT
        !.m_twin[adjSrc] = S3.m_adjTgt[e],
        !.adjEdges[u] = pushBack(@, adjSrc) ]

\* split without the call of resetAdjEntryIndex
split_reset_skipped(S5, e, oldId) == S5

\* split, line 826: resetAdjEntryIndex(e->m_adjTgt->m_id, oldId)
split_reset(S5, e, oldId) == resetAdjEntryIndex(S5, S5.a_id[S5.m_adjTgt[e]], oldId)

\* split, lines 828-832
split_links(S6, e, e2, u, adjTgt, adjSrc) ==
    [ S6 EXCEPT !.m_twin[S6.m_adjTgt[e2]] = adjSrc,
                !.m_edge[S6.m_adjTgt[e]] = e2,
                !.m_edge[adjSrc] = e2,
                !.m_tgt[e] = u,
                !.m_adjTgt[e] = adjTgt ]

\* split, lines 828-832, on the graph S6 whose last edge is e2
split_withEdge(S6, e, u, adjTgt, adjSrc) ==
    split_links(S6, e, Last(S6.edges), u, adjTgt, adjSrc)

\* split, lines 824-832, on the graph S4 that has u and both entries at u
split_withAdjSrc(S4, e, u, adjTgt, adjSrc) ==
    split_withEdge(
        split_reset(createEdgeElement(S4, u, S4.m_tgt[e], adjSrc, S4.m_adjTgt[e]),
                    e, S4.a_id[S4.m_adjTgt[e]]),
        e, u, adjTgt, adjSrc)

\* split, lines 820-832, on the graph S3 that has u and the entry adjTgt
split_withAdjTgt(S3, e, u, adjTgt) ==
    split_withAdjSrc(split_adjSrc(S3, e, u, Fresh(AdjHandles(S3))),
                     e, u, adjTgt, Fresh(AdjHandles(S3)))

\* split, lines 810-832, on the graph S2 whose last node is u
split_withNode(S2, e) ==
    split_withAdjTgt(
        split_adjTgt(S2, e, Last(S2.nodes), Fresh(AdjHandles(S2))),
        e, Last(S2.nodes), Fresh(AdjHandles(S2)))

\* edge Graph::split(edge e)
split(S, e) == split_withNode(split_degrees(newNode(S)), e)


\* ~GraphObjectContainer<AdjElement>(): the entries of the rotation of v are freed
RECURSIVE freeAdjs(_, _)
freeAdjs(S, as) ==
    IF as = << >> THEN S ELSE freeAdjs(FreeAdj(S, Head(as)), Tail(as))

\* unsplit(eIn, eOut) without the line adjTgt->m_id = eIn->m_adjTgt->m_id
unsplit_keepsFreshId(S, eIn, eOut) ==
    LET u      == S.m_tgt[eIn]
        adjSrc == S.m_adjSrc[eIn]
        adjTgt == S.m_adjTgt[eOut]
        S1     == [ S EXCEPT !.m_tgt[eIn] = S.m_tgt[eOut] ]
        S2     == resetAdjEntryIndex(S1, S1.a_id[S1.m_adjTgt[eIn]], S1.a_id[adjTgt])
        S3     == S2
        S4     == [ S3 EXCEPT !.m_adjTgt[eIn] = adjTgt ]
        S5     == [ setTwins(S4, adjSrc, adjTgt) EXCEPT !.m_edge[adjTgt] = eIn ]
        S6     == Note(S5, "edgeDeleted", eOut, Nil)
        S7     == Note(S6, "nodeDeleted", u, Nil)
        S8     == FreeEdge([ S7 EXCEPT !.edges = del(@, eOut) ], eOut)
    IN  FreeNode(freeAdjs([ S8 EXCEPT !.nodes = del(@, u) ], S8.adjEdges[u]), u)

\* void Graph::unsplit(edge eIn, edge eOut)
unsplit(S, eIn, eOut) ==
    LET u      == S.m_tgt[eIn]
        adjSrc == S.m_adjSrc[eIn]
        adjTgt == S.m_adjTgt[eOut]
        S1     == [ S EXCEPT !.m_tgt[eIn] = S.m_tgt[eOut] ]
        S2     == resetAdjEntryIndex(S1, S1.a_id[S1.m_adjTgt[eIn]], S1.a_id[adjTgt])
        S3     == [ S2 EXCEPT !.a_id[adjTgt] = S2.a_id[S2.m_adjTgt[eIn]] ]
        S4     == [ S3 EXCEPT !.m_adjTgt[eIn] = adjTgt ]
        S5     == [ setTwins(S4, adjSrc, adjTgt) EXCEPT !.m_edge[adjTgt] = eIn ]
        S6     == Note(S5, "edgeDeleted", eOut, Nil)
        S7     == Note(S6, "nodeDeleted", u, Nil)
        S8     == FreeEdge([ S7 EXCEPT !.edges = del(@, eOut) ], eOut)
    IN  FreeNode(freeAdjs([ S8 EXCEPT !.nodes = del(@, u) ], S8.adjEdges[u]), u)

\* void Graph::unsplit(node u)
unsplitNode(S, u) ==
    LET eIn  == S.m_edge[Head(S.adjEdges[u])]
        eOut == S.m_edge[Last(S.adjEdges[u])]
    IN  IF S.m_tgt[eIn] # u THEN unsplit(S, eOut, eIn) ELSE unsplit(S, eIn, eOut)

\* ------------------------------------------------------------------- clear
RECURSIVE freeRotations(_, _)
freeRotations(S, vs) ==
    IF vs = << >> THEN S
    ELSE freeRotations(freeAdjs(S, S.adjEdges[Head(vs)]), Tail(vs))

RECURSIVE freeNodes(_, _)
freeNodes(S, vs) ==
    IF vs = << >> THEN S ELSE freeNodes(FreeNode(S, Head(vs)), Tail(vs))

RECURSIVE freeEdges(_, _)
freeEdges(S, es) ==
    IF es = << >> THEN S ELSE freeEdges(FreeEdge(S, Head(es)), Tail(es))

\* the rotations are destroyed; nodes.clear(); edges.clear();
\* m_nodeIdCount = m_edgeIdCount = 0
clearLists(S) ==
    LET S1 == freeRotations(S, S.nodes)
        S2 == freeNodes(S1, S1.nodes)
        S3 == freeEdges(S2, S2.edges)
    IN  [ S3 EXCEPT !.nodes = << >>, !.edges = << >>,
                    !.m_nodeIdCount = 0, !.m_edgeIdCount = 0 ]

\* clear() without the closing reinitArrays()
clear_noReinit(S) ==
    LET S0 == Note(S, "cleared", Nil, Nil)
        S1 == clearLists(S0)
    IN  [ S1 EXCEPT !.m_nodeArrayTableSize = MIN_NODE_TABLE_SIZE ]

\* void Graph::clear()
clear(S) ==
    LET S0 == Note(S, "cleared", Nil, Nil)
        S1 == clearLists(S0)
        S2 == [ S1 EXCEPT !.m_nodeArrayTableSize = MIN_NODE_TABLE_SIZE ]
    IN  reinitArrays(S2)

\* ----------------------------------------------------------------- CCsInfo
\* CCsInfo, lines 1437-1444: the body of the loop over the entries of w, with
\* st the locals of the constructor (S the stack, startNodes and startEdges
\* the two lists, m_nodes and m_edges the filled parts of the arrays)
ccs_visit_everyEntry(G, st, adj) ==
    LET st1 == [ st EXCEPT !.m_edges = Append(@, G.m_edge[adj]) ]
        x   == twinNode(G, adj)
    IN  IF st1.component[x] = -1
        THEN [ st1 EXCEPT !.component[x] = st1.nComponent, !.S = Append(@, x) ]
        ELSE st1

ccs_visit(G, st, adj) ==
    LET st1 == IF G.a_id[adj] % 2 = 0
               THEN [ st EXCEPT !.m_edges = Append(@, G.m_edge[adj]) ]
               ELSE st
        x   == twinNode(G, adj)
    IN  IF st1.component[x] = -1
        THEN [ st1 EXCEPT !.component[x] = st1.nComponent, !.S = Append(@, x) ]
        ELSE st1

\* CCsInfo, lines 1436-1445: the loop over the entries of w
RECURSIVE ccs_adjs(_, _, _)
ccs_adjs(G, st, adjs) ==
    IF adjs = << >> THEN st
    ELSE ccs_adjs(G, ccs_visit(G, st, Head(adjs)), Tail(adjs))

\* CCsInfo, lines 1433-1434: node w = S.pop(); m_nodes[n++] = w
ccs_pop(st) ==
    [ st EXCEPT !.S = SubSeq(@, 1, Len(@) - 1), !.m_nodes = Append(@, Last(st.S)) ]

\* CCsInfo, lines 1432-1446: the loop that empties the stack
RECURSIVE ccs_while(_, _)
ccs_while(G, st) ==
    IF st.S = << >> THEN st
    ELSE ccs_while(G, ccs_adjs(G, ccs_pop(st), G.adjEdges[Last(st.S)]))

\* CCsInfo, lines 1429-1430: S.push(v); component[v] = nComponent
ccs_push(st, v) == [ st EXCEPT !.S = << v >>, !.component[v] = st.nComponent ]

\* CCsInfo, lines 1448-1450: the component is closed
ccs_close(st) ==
    [ st EXCEPT !.nComponent = @ + 1,
                !.startNodes = Append(@, Len(st.m_nodes)),
                !.startEdges = Append(@, Len(st.m_edges)) ]

\* CCsInfo, lines 1426-1451: the loop over the nodes of G
RECURSIVE ccs_for(_, _, _)
ccs_for(G, st, vs) ==
    IF vs = << >> THEN st
    ELSE IF st.component[Head(vs)] # -1 THEN ccs_for(G, st, Tail(vs))
    ELSE ccs_for(G, ccs_close(ccs_while(G, ccs_push(st, Head(vs)))), Tail(vs))

\* CCsInfo, lines 1420-1425: the locals before the loop
ccs_locals(G) ==
    [ component |-> [ v \in Range(G.nodes) |-> -1 ], S |-> << >>,
      m_nodes |-> << >>, m_edges |-> << >>,
      startNodes |-> << >>, startEdges |-> << >>, nComponent |-> 0 ]

\* CCsInfo, lines 1453-1468: the members made of the locals
ccs_members(st) ==
    [ m_nodes |-> st.m_nodes, m_edges |-> st.m_edges,
      m_startNode |-> << 0 >> \o st.startNodes,
      m_startEdge |-> << 0 >> \o st.startEdges,
      m_numCC |-> st.nComponent ]

\* Graph::CCsInfo::CCsInfo(const Graph& G)
CCsInfo(G) == ccs_members(ccs_for(G, ccs_locals(G), G.nodes))

\* unregisterArray(it) for the node array registered last
unregisterLastNodeArray(S) ==
    [ S EXCEPT !.m_regNodeArrays = SubSeq(@, 1, Len(@) - 1) ]

\* ------------------------------------------------------------- reverseEdge
\* void Graph::reverseEdge(edge e)
reverseEdge_keepsDegrees(S, e) ==
    [ S EXCEPT !.m_src[e] = S.m_tgt[e], !.m_tgt[e] = S.m_src[e],
               !.m_adjSrc[e] = S.m_adjTgt[e], !.m_adjTgt[e] = S.m_adjSrc[e] ]

reverseEdge(S, e) ==
    LET S1  == [ S EXCEPT !.m_src[e] = S.m_tgt[e], !.m_tgt[e] = S.m_src[e],
                          !.m_adjSrc[e] = S.m_adjTgt[e], !.m_adjTgt[e] = S.m_adjSrc[e] ]
        src == S1.m_src[e]
        tgt == S1.m_tgt[e]
        S2  == [ S1 EXCEPT !.m_outdeg[src] = @ + 1 ]
        S3  == [ S2 EXCEPT !.m_indeg[src] = @ - 1 ]
        S4  == [ S3 EXCEPT !.m_outdeg[tgt] = @ - 1 ]
    IN  [ S4 EXCEPT !.m_indeg[tgt] = @ + 1 ]

RECURSIVE reverseEdges(_, _)
reverseEdges(S, es) ==
    IF es = << >> THEN S ELSE reverseEdges(reverseEdge(S, Head(es)), Tail(es))

\* void Graph::reverseAllEdges()
reverseAllEdges(S) == reverseEdges(S, S.edges)

\* hideEdge(e) without the line tgt->m_indeg--
hideEdge_keepsIndeg(S, e) ==
    LET src == S.m_src[e]
        tgt == S.m_tgt[e]
        S1  == [ S EXCEPT !.adjEdges[src] = del(@, S.m_adjSrc[e]) ]
        S2  == [ S1 EXCEPT !.m_outdeg[src] = @ - 1 ]
        S3  == [ S2 EXCEPT !.adjEdges[tgt] = del(@, S.m_adjTgt[e]) ]
        S4  == S3
    IN  [ S4 EXCEPT !.edges = del(@, e), !.m_hiddenEdges = pushBack(@, e) ]

\* ------------------------------------------------------- hideEdge, restore
\* void Graph::hideEdge(edge e)
hideEdge(S, e) ==
    LET src == S.m_src[e]
        tgt == S.m_tgt[e]
        S1  == [ S EXCEPT !.adjEdges[src] = del(@, S.m_adjSrc[e]) ]
        S2  == [ S1 EXCEPT !.m_outdeg[src] = @ - 1 ]
        S3  == [ S2 EXCEPT !.adjEdges[tgt] = del(@, S.m_adjTgt[e]) ]
        S4  == [ S3 EXCEPT !.m_indeg[tgt] = @ - 1 ]
    IN  [ S4 EXCEPT !.edges = del(@, e), !.m_hiddenEdges = pushBack(@, e) ]

\* restoreEdge(e) without the line ++w->m_indeg
restoreEdge_keepsIndeg(S, e) ==
    LET v  == S.m_src[e]
        S1 == [ S EXCEPT !.adjEdges[v] = pushBack(@, S.m_adjSrc[e]) ]
        S2 == [ S1 EXCEPT !.m_outdeg[v] = @ + 1 ]
        w  == S2.m_tgt[e]
        S3 == [ S2 EXCEPT !.adjEdges[w] = pushBack(@, S.m_adjTgt[e]) ]
        S4 == S3
    IN  [ S4 EXCEPT !.m_hiddenEdges = del(@, e), !.edges = pushBack(@, e) ]

\* void Graph::restoreEdge(edge e)
restoreEdge(S, e) ==
    LET v  == S.m_src[e]
        S1 == [ S EXCEPT !.adjEdges[v] = pushBack(@, S.m_adjSrc[e]) ]
        S2 == [ S1 EXCEPT !.m_outdeg[v] = @ + 1 ]
        w  == S2.m_tgt[e]
        S3 == [ S2 EXCEPT !.adjEdges[w] = pushBack(@, S.m_adjTgt[e]) ]
        S4 == [ S3 EXCEPT !.m_indeg[w] = @ + 1 ]
    IN  [ S4 EXCEPT !.m_hiddenEdges = del(@, e), !.edges = pushBack(@, e) ]

\* for(e = m_hiddenEdges.tail(); e != nullptr; e = ePrev) restoreEdge(e)
RECURSIVE restoreFromTail(_, _)
restoreFromTail(S, es) ==
    IF es = << >> THEN S
    ELSE restoreFromTail(restoreEdge(S, Last(es)), SubSeq(es, 1, Len(es) - 1))

\* void Graph::restoreAllEdges()
restoreAllEdges(S) == restoreFromTail(S, S.m_hiddenEdges)

\* -------------------------------------------------------- resetEdgeIdCount
\* void Graph::resetEdgeIdCount(int maxId); the OGDF_DEBUG loop asserts
\* AssertNoLargerEdgeId
resetEdgeIdCount(S, maxId) == [ S EXCEPT !.m_edgeIdCount = maxId + 1 ]

AssertNoLargerEdgeId(S, maxId) == \A e \in Range(S.edges) : S.e_id[e] <= maxId

\* ------------------------------------------------- registration of arrays
\* Graph::registerArray(NodeArrayBase *): the array has been built with the
\* table size of the graph and is appended to the list
registerNodeArray(S) ==
    [ S EXCEPT !.m_regNodeArrays = pushBack(@, NewArray(S.m_nodeArrayTableSize)) ]

\* Graph::registerArray(EdgeArrayBase *)
registerEdgeArray(S) ==
    [ S EXCEPT !.m_regEdgeArrays = pushBack(@, NewArray(S.m_edgeArrayTableSize)) ]

\* Graph::registerArray(AdjEntryArrayBase *)
registerAdjArray(S) ==
    [ S EXCEPT !.m_regAdjArrays = pushBack(@, NewArray(2 * S.m_edgeArrayTableSize)) ]

\* NodeArray<T>::operator[](node v) = x on the i-th registered node array
writeNodeArray(S, i, v, x) ==
    [ S EXCEPT !.m_regNodeArrays[i].data =
        [ k \in DOMAIN @ \cup { S.n_id[v] } |-> IF k = S.n_id[v] THEN x ELSE @[k] ] ]

\* -------------------------------------------------------------------- copy
\* for(node vG : G.nodes) { v = mapNode[vG] = pureNewNode(); degrees copied }
\* the node loop of copy without the lines that copy m_indeg and m_outdeg
RECURSIVE copyNodes_noDegrees(_, _, _, _)
copyNodes_noDegrees(T, G, vs, mapNode) ==
    IF vs = << >> THEN [ S |-> T, mapNode |-> mapNode ]
    ELSE LET vG == Head(vs)
             T1 == pureNewNode(T)
             v  == Last(T1.nodes)
         IN  copyNodes_noDegrees(T1, G, Tail(vs), mapNode @@ (vG :> v))

RECURSIVE copyNodes(_, _, _, _)
copyNodes(T, G, vs, mapNode) ==
    IF vs = << >> THEN [ S |-> T, mapNode |-> mapNode ]
    ELSE LET vG == Head(vs)
             T1 == pureNewNode(T)
             v  == Last(T1.nodes)
             T2 == [ T1 EXCEPT !.m_indeg[v] = G.m_indeg[vG],
                               !.m_outdeg[v] = G.m_outdeg[vG] ]
         IN  copyNodes(T2, G, Tail(vs), mapNode @@ (vG :> v))

\* for(edge e : G.edges) { eC = new EdgeElement(...); its two AdjElements }
RECURSIVE copyEdges(_, _, _, _, _)
copyEdges(T, G, es, mapNode, mapEdge) ==
    IF es = << >> THEN [ S |-> T, mapEdge |-> mapEdge ]
    ELSE LET e    == Head(es)
             eC   == Fresh(EdgeHandles(T))
             aS   == Fresh(AdjHandles(T))
             T1   == AdjElementOf(T, aS, eC, 2 * T.m_edgeIdCount)
             aT   == Fresh(AdjHandles(T1))
             T2   == AdjElementOf(T1, aT, eC, 2 * T.m_edgeIdCount + 1)
             T3   == EdgeElement(T2, eC, mapNode[G.m_src[e]], mapNode[G.m_tgt[e]],
                                 aS, aT, T.m_edgeIdCount)
             T4   == [ setTwins(T3, aS, aT) EXCEPT
                         !.edges = pushBack(@, eC), !.m_edgeIdCount = @ + 1 ]
         IN  copyEdges(T4, G, Tail(es), mapNode, mapEdge @@ (e :> eC))

\* the pairs (vG, adjG) in the order the two nested loops visit them
RECURSIVE adjVisits(_, _)
adjVisits(G, vs) ==
    IF vs = << >> THEN << >>
    ELSE [ i \in 1..Len(G.adjEdges[Head(vs)]) |-> << Head(vs), G.adjEdges[Head(vs)][i] >> ]
         \o adjVisits(G, Tail(vs))

\* the loop body of copy: which entry of eC goes to the rotation of v
RECURSIVE copyRotations(_, _, _, _, _, _)
copyRotations(T, G, visits, mapNode, mapEdge, mark) ==
    IF visits = << >> THEN T
    ELSE LET vG   == Head(visits)[1]
             adjG == Head(visits)[2]
             v    == mapNode[vG]
             e    == G.m_edge[adjG]
             eC   == mapEdge[e]
             loop == T.m_src[eC] = T.m_tgt[eC]
             adj  == IF loop
                     THEN (IF e \in mark THEN T.m_adjTgt[eC] ELSE T.m_adjSrc[eC])
                     ELSE (IF v = T.m_src[eC] THEN T.m_adjSrc[eC] ELSE T.m_adjTgt[eC])
             T1   == [ T EXCEPT !.adjEdges[v] = pushBack(@, adj), !.m_node[adj] = v ]
         IN  copyRotations(T1, G, Tail(visits), mapNode, mapEdge,
                           IF loop THEN mark \cup {e} ELSE mark)

\* void Graph::copy(const Graph &G, NodeArray<node> &mapNode, EdgeArray<edge> &mapEdge)
copy(T, G) ==
    IF Len(G.nodes) = 0 THEN T
    ELSE LET N == copyNodes(T, G, G.nodes, << >>)
         IN  IF Len(G.edges) = 0 THEN N.S
             ELSE LET E == copyEdges(N.S, G, G.edges, N.mapNode, << >>)
                  IN  copyRotations(E.S, G, adjVisits(G, G.nodes),
                                    N.mapNode, E.mapEdge, {})

\* m_nodeArrayTableSize = nextPower2(MIN_NODE_TABLE_SIZE, m_nodeIdCount); same for edges
setTableSizes(S) ==
    [ S EXCEPT !.m_nodeArrayTableSize = nextPower2(MIN_NODE_TABLE_SIZE, S.m_nodeIdCount),
               !.m_edgeArrayTableSize = nextPower2(MIN_EDGE_TABLE_SIZE, S.m_edgeIdCount) ]

\* Graph &Graph::operator=(const Graph &G), and Graph::assign
assign(T, G) == reinitArrays(setTableSizes(copy(clear(T), G)))

\* void Graph::reinitStructures(): every registered observer gets reInit()
reinitStructures(S) == Note(S, "reInit", Nil, Nil)

\* ------------------------------------------------------------------- genus
\* AdjElement::faceCycleSucc(): the cyclic successor of the twin
faceCycleSucc(G, adj) == cyclicSucc(G, G.m_twin[adj])

\* the nodes reached from the nodes X over edges in either direction
RECURSIVE cc_reach(_, _)
cc_reach(G, X) ==
    LET Y == X \cup { twinNode(G, a) : a \in UNION { Range(G.adjEdges[v]) : v \in X } }
    IN  IF Y = X THEN X ELSE cc_reach(G, Y)

\* connectedComponents(G, component): the number of connected components,
\* the nodes vs taken in list order, seen the nodes that have a component
RECURSIVE connectedComponents(_, _, _)
connectedComponents(G, vs, seen) ==
    IF vs = << >> THEN 0
    ELSE IF Head(vs) \in seen THEN connectedComponents(G, Tail(vs), seen)
    ELSE 1 + connectedComponents(G, Tail(vs), seen \cup cc_reach(G, { Head(vs) }))

\* genus, lines 1064-1066: the nodes of degree 0
genus_nIsolated(G) ==
    Cardinality({ v \in Range(G.nodes) : G.m_indeg[v] + G.m_outdeg[v] = 0 })

\* genus whose tracing loop marks the entry it starts from only
genus_trace_marksStart(G, adj, adj1, visited, fuel) ==
    [ visited |-> visited \cup { adj1 }, done |-> TRUE ]

\* genus, lines 1079-1083: do { visited[adj] = true; adj = adj->faceCycleSucc(); }
\* while (adj != adj1); fuel bounds the passes, done: the loop came to its end
RECURSIVE genus_trace(_, _, _, _, _)
genus_trace(G, adj, adj1, visited, fuel) ==
    IF faceCycleSucc(G, adj) = adj1
    THEN [ visited |-> visited \cup { adj }, done |-> TRUE ]
    ELSE IF fuel = 0
    THEN [ visited |-> visited \cup { adj }, done |-> FALSE ]
    ELSE genus_trace(G, faceCycleSucc(G, adj), adj1, visited \cup { adj }, fuel - 1)

\* genus, lines 1075-1086: one pass of the inner for loop, for the entry adj1
genus_step(G, st, adj1) ==
    IF adj1 \in st.visited THEN st
    ELSE LET t == genus_trace(G, adj1, adj1, st.visited, Cardinality(DOMAIN G.a_id))
         IN  [ visited |-> t.visited, done |-> t.done,
               nFaceCycles |-> IF t.done THEN st.nFaceCycles + 1 ELSE st.nFaceCycles ]

\* genus, lines 1074-1087: the two nested for loops over the visits
RECURSIVE genus_for(_, _, _)
genus_for(G, st, visits) ==
    IF visits = << >> \/ ~st.done THEN st
    ELSE genus_for(G, genus_step(G, st, Head(visits)[2]), Tail(visits))

\* the face cycles genus() counts
genus_faceCycles(G) ==
    genus_for(G, [ visited |-> {}, done |-> TRUE, nFaceCycles |-> 0 ],
              adjVisits(G, G.nodes))

\* the int division of C++ by 2, which rounds towards zero
half(x) == IF x >= 0 THEN x \div 2 ELSE -((-x) \div 2)

\* int Graph::genus() const
genus(G) ==
    IF Len(G.nodes) = 0 THEN 0
    ELSE half(Len(G.edges) - Len(G.nodes) - genus_nIsolated(G)
              - genus_faceCycles(G).nFaceCycles
              + 2 * connectedComponents(G, G.nodes, {}))

\* ------------------------------------------------------- constructInitByCC
\* the elements i of the array a with lo <= i < hi, indices counted from 0
fromTo(a, lo, hi) == SubSeq(a, lo + 1, hi)

\* constructInitByCC, lines 222-236: the loop that makes the nodes
RECURSIVE cc_nodes(_, _, _, _)
cc_nodes(T, G, vs, mapNode) ==
    IF vs = << >> THEN [ S |-> T, mapNode |-> mapNode ]
    ELSE LET vG == Head(vs)
             v  == FreshNode(T)
             T1 == [ NodeElement(T, v, T.m_nodeIdCount) EXCEPT
                       !.m_nodeIdCount = @ + 1, !.nodes = pushBack(@, v) ]
             T2 == [ T1 EXCEPT !.m_indeg[v] = G.m_indeg[vG],
                               !.m_outdeg[v] = G.m_outdeg[vG] ]
         IN  cc_nodes(T2, G, Tail(vs), mapNode @@ (vG :> v))

\* constructInitByCC, lines 238-257: the loop that makes the edges
RECURSIVE cc_edges(_, _, _, _, _)
cc_edges(T, G, es, mapNode, mapEdge) ==
    IF es = << >> THEN [ S |-> T, mapEdge |-> mapEdge ]
    ELSE LET eG     == Head(es)
             v      == mapNode[G.m_src[eG]]
             w      == mapNode[G.m_tgt[eG]]
             eC     == Fresh(EdgeHandles(T))
             adjSrc == Fresh(AdjHandles(T))
             T1     == AdjElementOf(T, adjSrc, eC, 2 * T.m_edgeIdCount)
             adjTgt == Fresh(AdjHandles(T1))
             T2     == AdjElementOf(T1, adjTgt, eC, 2 * T.m_edgeIdCount + 1)
             T3     == EdgeElement(T2, eC, v, w, adjSrc, adjTgt, T.m_edgeIdCount)
             T4     == [ setTwins(T3, adjSrc, adjTgt) EXCEPT
                           !.edges = pushBack(@, eC),
                           !.m_node[adjSrc] = v, !.m_node[adjTgt] = w,
                           !.m_edgeIdCount = @ + 1 ]
         IN  cc_edges(T4, G, Tail(es), mapNode, mapEdge @@ (eG :> eC))

\* the choice of the entry by the side of the node, as copy makes it for an
\* edge that is no self-loop
cc_adj_bySide(T, G, adjG, e) ==
    IF T.m_src[e] = T.m_node[T.m_adjSrc[e]] THEN T.m_adjSrc[e] ELSE T.m_adjTgt[e]

\* constructInitByCC, line 268:
\* adj = (adjG == eG->adjSource()) ? e->adjSource() : e->adjTarget()
cc_adj(T, G, adjG, e) ==
    IF adjG = G.m_adjSrc[G.m_edge[adjG]] THEN T.m_adjSrc[e] ELSE T.m_adjTgt[e]

\* constructInitByCC, lines 259-271: the loops that fill the rotations
RECURSIVE cc_rotations(_, _, _, _, _)
cc_rotations(T, G, visits, mapNode, mapEdge) ==
    IF visits = << >> THEN T
    ELSE LET v    == mapNode[Head(visits)[1]]
             adjG == Head(visits)[2]
             adj  == cc_adj(T, G, adjG, mapEdge[G.m_edge[adjG]])
         IN  cc_rotations([ T EXCEPT !.adjEdges[v] = pushBack(@, adj) ],
                          G, Tail(visits), mapNode, mapEdge)

\* constructInitByCC, lines 259-271, for the nodes vs and the edges made
cc_withEdges(E, G, vs, mapNode) ==
    cc_rotations(E.S, G, adjVisits(G, vs), mapNode, E.mapEdge)

\* constructInitByCC, lines 238-271, for the nodes vs made and the edges es
cc_withNodes(N, G, vs, es) ==
    cc_withEdges(cc_edges(N.S, G, es, N.mapNode, << >>), G, vs, N.mapNode)

\* void Graph::constructInitByCC(const CCsInfo &info, int cc, mapNode, mapEdge)
constructInitByCC(T, G, info, cc) ==
    reinitArrays(setTableSizes(
        cc_withNodes(
            cc_nodes(clearLists(T), G,
                     fromTo(info.m_nodes, info.m_startNode[cc + 1],
                            info.m_startNode[cc + 2]), << >>),
            G,
            fromTo(info.m_nodes, info.m_startNode[cc + 1], info.m_startNode[cc + 2]),
            fromTo(info.m_edges, info.m_startEdge[cc + 1], info.m_startEdge[cc + 2]))))

\* ----------------------------------------------- constructInitByActiveNodes
\* EdgeElement::opposite(v)
opposite(G, e, v) == IF v = G.m_src[e] THEN G.m_tgt[e] ELSE G.m_src[e]

\* constructInitByActiveNodes, lines 397-411: the loop over the entries of vG;
\* c holds adjEdges, inCount and outCount
RECURSIVE an_count(_, _, _, _, _)
an_count(G, vG, adjs, activeNodes, c) ==
    IF adjs = << >> THEN c
    ELSE LET adjG == Head(adjs)
             eG   == G.m_edge[adjG]
             c1   == IF opposite(G, eG, vG) \in activeNodes
                     THEN [ adjEdges |-> IF G.a_id[adjG] % 2 = 0
                                         THEN Append(c.adjEdges, eG) ELSE c.adjEdges,
                            inCount  |-> IF G.m_src[eG] = vG
                                         THEN c.inCount ELSE c.inCount + 1,
                            outCount |-> IF G.m_src[eG] = vG
                                         THEN c.outCount + 1 ELSE c.outCount ]
                     ELSE c
         IN  an_count(G, vG, Tail(adjs), activeNodes, c1)

\* constructInitByActiveNodes, lines 393-414: one pass of the loop over
\* nodeList, on the graph T1 that has the new node last; edgeList is the
\* list adjEdges so far
an_node(T1, G, vG, activeNodes, edgeList) ==
    LET v == Last(T1.nodes)
        c == an_count(G, vG, G.adjEdges[vG], activeNodes,
                      [ adjEdges |-> edgeList, inCount |-> 0, outCount |-> 0 ])
    IN  [ S |-> [ T1 EXCEPT !.m_indeg[v] = c.inCount, !.m_outdeg[v] = c.outCount ],
          adjEdges |-> c.adjEdges ]

\* constructInitByActiveNodes, lines 392-414: the loop over nodeList
RECURSIVE an_nodes(_, _, _, _, _, _)
an_nodes(T, G, vs, activeNodes, mapNode, edgeList) ==
    IF vs = << >> THEN [ S |-> T, mapNode |-> mapNode, adjEdges |-> edgeList ]
    ELSE LET T1 == pureNewNode(T)
             N  == an_node(T1, G, Head(vs), activeNodes, edgeList)
         IN  an_nodes(N.S, G, Tail(vs), activeNodes,
                      mapNode @@ (Head(vs) :> Last(T1.nodes)), N.adjEdges)

\* constructInitByActiveNodes, lines 419-438: one edge is made
an_edge(T, v, w) ==
    LET adjSrc == Fresh(AdjHandles(T))
        T1 == [ AdjElementAt(T, adjSrc, v) EXCEPT !.adjEdges[v] = pushBack(@, adjSrc) ]
        adjTgt == Fresh(AdjHandles(T1))
        T2 == [ AdjElementAt(T1, adjTgt, w) EXCEPT !.adjEdges[w] = pushBack(@, adjTgt) ]
        T3 == [ setTwins(T2, adjSrc, adjTgt) EXCEPT
                  !.a_id[adjSrc] = 2 * T2.m_edgeIdCount,
                  !.a_id[adjTgt] = 2 * T2.m_edgeIdCount + 1 ]
        e  == Fresh(EdgeHandles(T3))
        T4 == [ EdgeElement(T3, e, v, w, adjSrc, adjTgt, T3.m_edgeIdCount) EXCEPT
                  !.m_edgeIdCount = @ + 1, !.edges = pushBack(@, e) ]
    IN  setEdgeOfAdjs(T4, adjSrc, adjTgt, e)

\* constructInitByActiveNodes, lines 417-439: the loop over adjEdges
RECURSIVE an_edges(_, _, _, _)
an_edges(T, G, es, mapNode) ==
    IF es = << >> THEN T
    ELSE an_edges(an_edge(T, mapNode[G.m_src[Head(es)]], mapNode[G.m_tgt[Head(es)]]),
                  G, Tail(es), mapNode)

\* constructInitByActiveNodes, lines 377-386: the graph is emptied
an_clear(T) == [ clearLists(T) EXCEPT !.m_nodeArrayTableSize = MIN_NODE_TABLE_SIZE ]

\* constructInitByActiveNodes, lines 417-439, with the nodes made
an_withNodes(N, G) == an_edges(N.S, G, N.adjEdges, N.mapNode)

\* void Graph::constructInitByActiveNodes(nodeList, activeNodes, mapNode, mapEdge)
constructInitByActiveNodes(T, G, nodeList, activeNodes) ==
    reinitArrays(setTableSizes(
        an_withNodes(an_nodes(an_clear(T), G, nodeList, activeNodes, << >>, << >>), G)))

\* ------------------------------------------------------- consistencyCheck
\* the loop over the nodes and their rotations
nodesConsistent(S) ==
    \A v \in Range(S.nodes) :
        /\ \A i \in 1..Len(S.adjEdges[v]) :
              LET adj == S.adjEdges[v][i]
                  e   == S.m_edge[adj]
              IN  /\ e \in DOMAIN S.e_id
                  /\ S.m_twin[adj] \in DOMAIN S.a_id
                  /\ S.m_edge[S.m_twin[adj]] = e
                  /\ (S.m_adjSrc[e] = adj \/ S.m_adjTgt[e] = adj)
                  /\ S.m_node[adj] = v
        /\ S.m_indeg[v] =
              Cardinality({ i \in 1..Len(S.adjEdges[v]) :
                  LET adj == S.adjEdges[v][i]
                  IN  S.m_adjSrc[S.m_edge[adj]] # adj /\ S.m_adjTgt[S.m_edge[adj]] = adj })
        /\ S.m_outdeg[v] =
              Cardinality({ i \in 1..Len(S.adjEdges[v]) :
                  S.m_adjSrc[S.m_edge[S.adjEdges[v][i]]] = S.adjEdges[v][i] })

\* the loop over the edges
edgesConsistent(S) ==
    \A e \in Range(S.edges) :
        /\ S.m_adjSrc[e] # S.m_adjTgt[e]
        /\ S.m_adjSrc[e] \in DOMAIN S.a_id
        /\ S.m_adjTgt[e] \in DOMAIN S.a_id
        /\ S.m_edge[S.m_adjSrc[e]] = e
        /\ S.m_edge[S.m_adjTgt[e]] = e
        /\ S.m_node[S.m_adjSrc[e]] = S.m_src[e]
        /\ S.m_node[S.m_adjTgt[e]] = S.m_tgt[e]

\* bool Graph::consistencyCheck() const
consistencyCheck(S) == nodesConsistent(S) /\ edgesConsistent(S)

\* ------------------------------------------------------------ Graph::Graph()
EmptyGraph ==
    [ nodes |-> << >>, edges |-> << >>, m_hiddenEdges |-> << >>,
      n_id |-> << >>, m_indeg |-> << >>, m_outdeg |-> << >>, adjEdges |-> << >>,
      e_id |-> << >>, m_src |-> << >>, m_tgt |-> << >>,
      m_adjSrc |-> << >>, m_adjTgt |-> << >>,
      a_id |-> << >>, m_node |-> << >>, m_edge |-> << >>, m_twin |-> << >>,
      m_nodeIdCount |-> 0, m_edgeIdCount |-> 0,
      m_nodeArrayTableSize |-> MIN_NODE_TABLE_SIZE,
      m_edgeArrayTableSize |-> MIN_EDGE_TABLE_SIZE,
      m_regNodeArrays |-> << >>, m_regEdgeArrays |-> << >>, m_regAdjArrays |-> << >>,
      notes |-> << >> ]

NoSnap == [ has |-> FALSE, run |-> FALSE, first |-> << >>, last |-> << >> ]

\* the graph as it is when a call is made
Before == [ has |-> TRUE, run |-> FALSE, first |-> Cur, last |-> Cur ]

Op(op, a, b, c) == [ op |-> op, a |-> a, b |-> b, c |-> c ]

\* the variables take the fields of S
Set(S) ==
    /\ nodes' = S.nodes /\ edges' = S.edges /\ m_hiddenEdges' = S.m_hiddenEdges
    /\ n_id' = S.n_id /\ m_indeg' = S.m_indeg /\ m_outdeg' = S.m_outdeg
    /\ adjEdges' = S.adjEdges
    /\ e_id' = S.e_id /\ m_src' = S.m_src /\ m_tgt' = S.m_tgt
    /\ m_adjSrc' = S.m_adjSrc /\ m_adjTgt' = S.m_adjTgt
    /\ a_id' = S.a_id /\ m_node' = S.m_node /\ m_edge' = S.m_edge /\ m_twin' = S.m_twin
    /\ m_nodeIdCount' = S.m_nodeIdCount /\ m_edgeIdCount' = S.m_edgeIdCount
    /\ m_nodeArrayTableSize' = S.m_nodeArrayTableSize
    /\ m_edgeArrayTableSize' = S.m_edgeArrayTableSize
    /\ m_regNodeArrays' = S.m_regNodeArrays /\ m_regEdgeArrays' = S.m_regEdgeArrays
    /\ m_regAdjArrays' = S.m_regAdjArrays
    /\ notes' = IF trace THEN S.notes ELSE << >>
    /\ trace' = trace

\* a call that ran to its end: the variables take its result
Do(S, op, newSnap) ==
    /\ Set(S)
    /\ lastOp' = IF trace THEN op ELSE Op("", Nil, Nil, Nil)
    /\ snap' = IF trace THEN newSnap ELSE NoSnap
    /\ ub' = FALSE
    /\ UNCHANGED << m_mutexRegArrays, pc, it >>

\* a call that wrote to a freed object: what follows is undefined
Undefined(op) ==
    /\ Set(Cur)
    /\ lastOp' = IF trace THEN op ELSE Op("", Nil, Nil, Nil)
    /\ snap' = NoSnap
    /\ ub' = TRUE
    /\ UNCHANGED << m_mutexRegArrays, pc, it >>

\* the threads that call into one graph
Threads == 1..MaxThreads

InitGraph ==
    /\ nodes = << >> /\ edges = << >> /\ m_hiddenEdges = << >>
    /\ n_id = << >> /\ m_indeg = << >> /\ m_outdeg = << >> /\ adjEdges = << >>
    /\ e_id = << >> /\ m_src = << >> /\ m_tgt = << >>
    /\ m_adjSrc = << >> /\ m_adjTgt = << >>
    /\ a_id = << >> /\ m_node = << >> /\ m_edge = << >> /\ m_twin = << >>
    /\ m_nodeIdCount = 0 /\ m_edgeIdCount = 0
    /\ m_nodeArrayTableSize = MIN_NODE_TABLE_SIZE
    /\ m_edgeArrayTableSize = MIN_EDGE_TABLE_SIZE
    /\ m_regNodeArrays = << >> /\ m_regEdgeArrays = << >> /\ m_regAdjArrays = << >>
    /\ notes = << >>
    /\ lastOp = Op("Graph", Nil, Nil, Nil)
    /\ snap = NoSnap
    /\ ub = FALSE
    /\ m_mutexRegArrays = Nil
    /\ pc = [ t \in Threads |-> "idle" ]
    /\ it = [ t \in Threads |-> 0 ]

\* the graph after Graph::Graph(), with the notifications and calls recorded
Init == InitGraph /\ trace = TRUE

\* the same graph, with no record of the calls kept
InitQuiet == InitGraph /\ trace = FALSE

\* ------------------------------------------------------------------ inputs
Nodes == Range(nodes)
Edges == Range(edges)
Hidden == Range(m_hiddenEdges)
RotAdjs == UNION { Range(adjEdges[v]) : v \in Nodes }
Dirs == { "after", "before" }
LiveNodeIds == { n_id[v] : v \in Nodes }
LiveEdgeIds == { e_id[e] : e \in DOMAIN e_id }
NumEdges == Cardinality(DOMAIN e_id)

\* ----------------------------------------------------------------- actions
\* Each action is one call of a public operation on live handles; maxN, maxE
\* bound the live nodes and edges, maxNId, maxEId the id counters.
NewNode(maxN, maxNId) ==
    /\ ~ub /\ Len(nodes) < maxN /\ m_nodeIdCount < maxNId
    /\ Do(newNode(Cur), Op("newNode", Nil, Nil, Nil), NoSnap)

NewNodeIndex(maxN, ids) ==
    /\ ~ub /\ Len(nodes) < maxN
    /\ \E index \in ids \ LiveNodeIds :
          Do(newNodeIndex(Cur, index), Op("newNodeIndex", index, Nil, Nil), NoSnap)

NewEdge(maxE, maxEId) ==
    /\ ~ub /\ NumEdges < maxE /\ m_edgeIdCount < maxEId
    /\ \E v \in Nodes, w \in Nodes :
          Do(newEdge(Cur, v, w), Op("newEdge", v, w, Nil), NoSnap)

NewEdgeIndex(maxE, ids) ==
    /\ ~ub /\ NumEdges < maxE
    /\ \E v \in Nodes, w \in Nodes, index \in ids \ LiveEdgeIds :
          Do(newEdgeIndex(Cur, v, w, index), Op("newEdgeIndex", v, w, index), NoSnap)

NewEdgeAdjAdj(maxE, maxEId) ==
    /\ ~ub /\ NumEdges < maxE /\ m_edgeIdCount < maxEId
    /\ \E adjStart \in RotAdjs, adjEnd \in RotAdjs, dir \in Dirs :
          Do(newEdgeAdjAdj(Cur, adjStart, adjEnd, dir),
             Op("newEdgeAdjAdj", adjStart, adjEnd, dir), NoSnap)

NewEdgeNodeAdj(maxE, maxEId) ==
    /\ ~ub /\ NumEdges < maxE /\ m_edgeIdCount < maxEId
    /\ \E v \in Nodes, adjEnd \in RotAdjs :
          Do(newEdgeNodeAdj(Cur, v, adjEnd), Op("newEdgeNodeAdj", v, adjEnd, Nil), NoSnap)

NewEdgeAdjNode(maxE, maxEId) ==
    /\ ~ub /\ NumEdges < maxE /\ m_edgeIdCount < maxEId
    /\ \E adjStart \in RotAdjs, v \in Nodes :
          Do(newEdgeAdjNode(Cur, adjStart, v), Op("newEdgeAdjNode", adjStart, v, Nil), NoSnap)

DelNode ==
    /\ ~ub
    /\ \E v \in Nodes : Do(delNode(Cur, v), Op("delNode", v, Nil, Nil), Before)

DelEdge ==
    /\ ~ub
    /\ \E e \in Edges : Do(delEdge(Cur, e), Op("delEdge", e, Nil, Nil), Before)

Split(maxN, maxE, maxNId, maxEId) ==
    /\ ~ub /\ Len(nodes) < maxN /\ NumEdges < maxE
    /\ m_nodeIdCount < maxNId /\ m_edgeIdCount < maxEId
    /\ \E e \in Edges :
          LET S == split(Cur, e)
          IN  Do(S, Op("split", e, Last(S.edges), Last(S.nodes)),
                 [ has |-> TRUE, run |-> FALSE, first |-> Cur, last |-> Cur ])

\* the assertions of unsplit(eIn, eOut)
CanUnsplit(eIn, eOut) ==
    LET u == m_tgt[eIn]
    IN  /\ m_indeg[u] = 1 /\ m_outdeg[u] = 1
        /\ m_src[eOut] = u
        /\ m_src[eIn] # m_tgt[eIn] /\ m_src[eOut] # m_tgt[eOut]

Unsplit ==
    /\ ~ub
    /\ \E eIn \in Edges, eOut \in Edges :
          /\ CanUnsplit(eIn, eOut)
          /\ Do(unsplit(Cur, eIn, eOut), Op("unsplit", eIn, eOut, m_tgt[eIn]),
                [ (IF lastOp.op = "split" /\ lastOp.a = eIn /\ lastOp.b = eOut
                   THEN snap ELSE NoSnap) EXCEPT !.last = Cur ])

UnsplitNode ==
    /\ ~ub
    /\ \E u \in Nodes :
          /\ Len(adjEdges[u]) = 2
          /\ LET e1 == m_edge[adjEdges[u][1]]
                 e2 == m_edge[adjEdges[u][2]]
             IN  IF m_tgt[e1] # u THEN CanUnsplit(e2, e1) ELSE CanUnsplit(e1, e2)
          /\ Do(unsplitNode(Cur, u), Op("unsplitNode", u, Nil, Nil), NoSnap)

\* contract(e) for an edge e that is not a self-loop
Contract ==
    /\ ~ub
    /\ \E e \in Edges :
          /\ m_src[e] # m_tgt[e]
          /\ Do(contract(Cur, e), Op("contract", e, m_src[e], m_tgt[e]), Before)

\* the assertion of splitNode: the two entries are at the same node
SplitNode(maxN, maxE, maxNId, maxEId) ==
    /\ ~ub /\ Len(nodes) < maxN /\ NumEdges < maxE
    /\ m_nodeIdCount < maxNId /\ m_edgeIdCount < maxEId
    /\ \E adjStartLeft \in RotAdjs, adjStartRight \in RotAdjs :
          /\ m_node[adjStartLeft] = m_node[adjStartRight]
          /\ LET S == splitNode(Cur, adjStartLeft, adjStartRight)
             IN  Do(S, Op("splitNode", adjStartLeft, adjStartRight, Last(S.nodes)),
                    Before)

\* three newNode() and three newEdge(v, w) that close a triangle
newTriangle_nodes(S) == newNode(newNode(newNode(S)))
newTriangle_edges(S, a, b, c) == newEdge(newEdge(newEdge(S, a, b), b, c), c, a)
newTriangle_on(S3) ==
    newTriangle_edges(S3, S3.nodes[Len(S3.nodes) - 2], S3.nodes[Len(S3.nodes) - 1],
                      Last(S3.nodes))
NewTriangle(maxN, maxE) ==
    /\ ~ub /\ Len(nodes) + 3 <= maxN /\ NumEdges + 3 <= maxE
    /\ Do(newTriangle_on(newTriangle_nodes(Cur)), Op("newTriangle", Nil, Nil, Nil),
          NoSnap)

\* CCsInfo(G): the constructor registers its NodeArray component with G and
\* the destructor of the array unregisters it
CCsInfoCall ==
    /\ ~ub
    /\ Do(unregisterLastNodeArray(registerNodeArray(Cur)),
          Op("CCsInfo", CCsInfo(Cur), Nil, Nil), Before)

ReverseEdge ==
    /\ ~ub
    /\ \E e \in Edges : Do(reverseEdge(Cur, e), Op("reverseEdge", e, Nil, Nil), Before)

ReverseAllEdges ==
    /\ ~ub /\ edges # << >>
    /\ Do(reverseAllEdges(Cur), Op("reverseAllEdges", Nil, Nil, Nil), NoSnap)

\* the assertions of move: the reference entries are not entries of e
Move ==
    /\ ~ub
    /\ \E e \in Edges, adjSrc \in RotAdjs, adjTgt \in RotAdjs,
          dirSrc \in Dirs, dirTgt \in Dirs :
          /\ { adjSrc, adjTgt } \cap { m_adjSrc[e], m_adjTgt[e] } = {}
          /\ Do(move(Cur, e, adjSrc, dirSrc, adjTgt, dirTgt),
                Op("move", e, << adjSrc, dirSrc >>, << adjTgt, dirTgt >>), Before)

MoveTarget ==
    /\ ~ub
    /\ \E e \in Edges, v \in Nodes :
          Do(moveTarget(Cur, e, v), Op("moveTarget", e, v, Nil), Before)

MoveTargetAdj ==
    /\ ~ub
    /\ \E e \in Edges, adjTgt \in RotAdjs, dir \in Dirs :
          /\ adjTgt # m_adjTgt[e]
          /\ Do(moveTargetAdj(Cur, e, adjTgt, dir), Op("moveTargetAdj", e, adjTgt, dir), Before)

MoveSource ==
    /\ ~ub
    /\ \E e \in Edges, v \in Nodes :
          Do(moveSource(Cur, e, v), Op("moveSource", e, v, Nil), Before)

MoveSourceAdj ==
    /\ ~ub
    /\ \E e \in Edges, adjSrc \in RotAdjs, dir \in Dirs :
          /\ adjSrc # m_adjSrc[e]
          /\ Do(moveSourceAdj(Cur, e, adjSrc, dir), Op("moveSourceAdj", e, adjSrc, dir), Before)

HideEdge ==
    /\ ~ub
    /\ \E e \in Edges :
          Do(hideEdge(Cur, e), Op("hideEdge", e, Nil, Nil),
             IF snap.run /\ lastOp.op = "hideEdge"
             THEN [ snap EXCEPT !.last = Cur ]
             ELSE IF m_hiddenEdges = << >>
                  THEN [ has |-> TRUE, run |-> TRUE, first |-> Cur, last |-> Cur ]
                  ELSE [ has |-> TRUE, run |-> FALSE, first |-> << >>, last |-> Cur ])

\* both endpoints of the hidden edge e are (still) nodes of the graph
EndpointsLive(e) == m_src[e] \in Nodes /\ m_tgt[e] \in Nodes

\* restoreEdge on an edge with a deleted endpoint writes to a freed node
RestoreEdge ==
    /\ ~ub
    /\ \E e \in Hidden :
          IF EndpointsLive(e)
          THEN Do(restoreEdge(Cur, e), Op("restoreEdge", e, Nil, Nil),
                  IF lastOp.op = "hideEdge" THEN snap ELSE NoSnap)
          ELSE Undefined(Op("restoreEdge", e, Nil, Nil))

RestoreAllEdges ==
    /\ ~ub /\ m_hiddenEdges # << >>
    /\ IF \A e \in Hidden : EndpointsLive(e)
       THEN Do(restoreAllEdges(Cur), Op("restoreAllEdges", Nil, Nil, Nil),
               IF lastOp.op = "hideEdge" THEN snap ELSE NoSnap)
       ELSE Undefined(Op("restoreAllEdges", Nil, Nil, Nil))

Clear ==
    /\ ~ub
    /\ Do(clear(Cur), Op("clear", Nil, Nil, Nil), Before)

\* *this = G, for a source graph G with the topology this graph has now
Assign ==
    /\ ~ub
    /\ Do(assign(Cur, Cur), Op("assign", Nil, Nil, Nil), Before)

\* a caller asks the observers to reinitialize
ReinitStructures ==
    /\ ~ub /\ lastOp.op # "reinitStructures"
    /\ Do(reinitStructures(Cur), Op("reinitStructures", Nil, Nil, Nil), Before)

\* genus() on the graph as it is; the arrays the call registers are
\* unregistered when it returns. A tracing loop that does not come back to
\* its start never ends.
Genus ==
    /\ ~ub /\ lastOp.op # "genus"
    /\ IF genus_faceCycles(Cur).done
       THEN Do(Cur, Op("genus", genus(Cur), genus_faceCycles(Cur).nFaceCycles, Nil),
               NoSnap)
       ELSE Undefined(Op("genus", Nil, Nil, Nil))

\* constructInitByCC(info, cc, mapNode, mapEdge) with info = CCsInfo(G), for a
\* source graph G with the topology this graph has now
ConstructInitByCC ==
    /\ ~ub /\ lastOp.op # "constructInitByCC"
    /\ \E cc \in 0..(CCsInfo(Cur).m_numCC - 1) :
          Do(constructInitByCC(Cur, Cur, CCsInfo(Cur), cc),
             Op("constructInitByCC", cc, CCsInfo(Cur), Nil), Before)

\* constructInitByActiveNodes for a source graph G with the topology this
\* graph has now; nodeList lists the active nodes in the order of G.nodes
ConstructInitByActiveNodes ==
    /\ ~ub /\ lastOp.op # "constructInitByActiveNodes"
    /\ \E activeNodes \in SUBSET Nodes :
          Do(constructInitByActiveNodes(Cur, Cur,
                 SelectSeq(nodes, LAMBDA v : v \in activeNodes), activeNodes),
             Op("constructInitByActiveNodes", activeNodes, Nil, Nil), Before)

NumArrays == Len(m_regNodeArrays) + Len(m_regEdgeArrays) + Len(m_regAdjArrays)

RegisterNodeArray(maxA) ==
    /\ ~ub /\ NumArrays < maxA
    /\ Do(registerNodeArray(Cur), Op("registerNodeArray", Nil, Nil, Nil), NoSnap)

RegisterEdgeArray(maxA) ==
    /\ ~ub /\ NumArrays < maxA
    /\ Do(registerEdgeArray(Cur), Op("registerEdgeArray", Nil, Nil, Nil), NoSnap)

RegisterAdjArray(maxA) ==
    /\ ~ub /\ NumArrays < maxA
    /\ Do(registerAdjArray(Cur), Op("registerAdjArray", Nil, Nil, Nil), NoSnap)

\* the value a test stores for the node with id k
Mark(k) == 100 + k

\* a[v] = Mark(id of v), the nodes taken in the order of their ids
WriteNodeArray ==
    /\ ~ub
    /\ \E i \in DOMAIN m_regNodeArrays, v \in Nodes :
          /\ n_id[v] \notin DOMAIN m_regNodeArrays[i].data
          /\ \A w \in Nodes : n_id[w] < n_id[v] => n_id[w] \in DOMAIN m_regNodeArrays[i].data
          /\ Do(writeNodeArray(Cur, i, v, Mark(n_id[v])),
                Op("writeNodeArray", i, v, Nil), NoSnap)

\* the edge id counter is lowered to maxId + 1, no listed edge having a
\* larger id
ResetEdgeIdCount ==
    /\ ~ub
    /\ \E maxId \in (-1)..(m_edgeIdCount - 2) :
          /\ AssertNoLargerEdgeId(Cur, maxId)
          /\ Do(resetEdgeIdCount(Cur, maxId), Op("resetEdgeIdCount", maxId, Nil, Nil), Before)

\* ------------------------------------------------------------------ threads
\* Calls made by several threads, in the steps between which another thread
\* can run. A thread works on a list while its pc is at a loop over the list.
Iterating(u) == pc[u] \in { "enlarge", "reinit" }

\* one step of thread t: the graph becomes S, t goes to loc with its loop at
\* pos, the mutex goes to owner; race: the step wrote to a list another
\* thread is iterating over, after which nothing is defined
Step(S, t, loc, owner, pos, race) ==
    /\ Set(S)
    /\ lastOp' = lastOp /\ snap' = snap
    /\ ub' = race
    /\ pc' = [ pc EXCEPT ![t] = loc ]
    /\ it' = [ it EXCEPT ![t] = pos ]
    /\ m_mutexRegArrays' = owner

\* unregisterArray(it) for the i-th registered node array
unregisterNodeArray(S, i) ==
    [ S EXCEPT !.m_regNodeArrays = SubSeq(@, 1, i - 1) \o SubSeq(@, i + 1, Len(@)) ]

\* newNode, lines 464-477: the element is made and the observers are told
newNode_create(S1) ==
    LET v  == FreshNode(S1)
        S2 == NodeElement(S1, v, S1.m_nodeIdCount)
        S3 == [ S2 EXCEPT !.m_nodeIdCount = @ + 1, !.nodes = pushBack(@, v) ]
    IN  Note(S3, "nodeAdded", v, Nil)

\* registerArray entered without waiting for the mutex
RegisterLock_noWait(t) ==
    /\ ~ub /\ pc[t] = "idle"
    /\ Len(m_regNodeArrays) < MaxThreadArrays
    /\ Step(Cur, t, "register", t, 0, FALSE)

\* registerArray, line 1097: lock_guard<mutex> guard(m_mutexRegArrays)
RegisterLock(t) ==
    /\ ~ub /\ pc[t] = "idle" /\ m_mutexRegArrays = Nil
    /\ Len(m_regNodeArrays) < MaxThreadArrays
    /\ Step(Cur, t, "register", t, 0, FALSE)

\* registerArray, line 1099: m_regNodeArrays.pushBack(pNodeArray)
RegisterPush(t) ==
    /\ ~ub /\ pc[t] = "register"
    /\ Step(registerNodeArray(Cur), t, "unlock", m_mutexRegArrays, 0,
            \E u \in Threads \ {t} : Iterating(u))

\* unregisterArray, line 1135: lock_guard<mutex> guard(m_mutexRegArrays)
UnregisterLock(t) ==
    /\ ~ub /\ pc[t] = "idle" /\ m_mutexRegArrays = Nil
    /\ m_regNodeArrays # << >>
    /\ Step(Cur, t, "unregister", t, 0, FALSE)

\* unregisterArray, line 1137: m_regNodeArrays.del(it)
UnregisterDel(t) ==
    /\ ~ub /\ pc[t] = "unregister"
    /\ \E i \in DOMAIN m_regNodeArrays :
          Step(unregisterNodeArray(Cur, i), t, "unlock", m_mutexRegArrays, 0,
               \E u \in Threads \ {t} : Iterating(u))

\* the return of registerArray / unregisterArray: the guard is destroyed
Unlock(t) ==
    /\ ~ub /\ pc[t] = "unlock"
    /\ Step(Cur, t, "idle", Nil, 0, FALSE)

\* the callers' rule: no two threads change the topology at the same time
NoOtherEditor(t) == \A u \in Threads \ {t} : ~Iterating(u)

\* newNode() when the table does not grow
NewNodeNoGrow(t) ==
    /\ ~ub /\ pc[t] = "idle" /\ NoOtherEditor(t)
    /\ m_nodeIdCount # m_nodeArrayTableSize /\ m_nodeIdCount < MaxThreadIds
    /\ Step(newNode(Cur), t, "idle", m_mutexRegArrays, 0, FALSE)

\* newNode, lines 458-459: the table grows, the loop over m_regNodeArrays
\* begins
NewNodeGrow(t) ==
    /\ ~ub /\ pc[t] = "idle" /\ NoOtherEditor(t)
    /\ m_nodeIdCount = m_nodeArrayTableSize /\ m_nodeIdCount < MaxThreadIds
    /\ Step([ Cur EXCEPT !.m_nodeArrayTableSize = 2 * @ ], t, "enlarge",
            m_mutexRegArrays, 1, FALSE)

\* newNode, lines 460-461: nab->enlargeTable(m_nodeArrayTableSize) for one
\* array of the list
Enlarge(t) ==
    /\ ~ub /\ pc[t] = "enlarge" /\ it[t] <= Len(m_regNodeArrays)
    /\ Step([ Cur EXCEPT !.m_regNodeArrays[it[t]] =
                            enlargeTable(@, m_nodeArrayTableSize) ],
            t, "enlarge", m_mutexRegArrays, it[t] + 1, FALSE)

\* newNode, lines 464-477, after the loop has reached the end of the list
NewNodeEnd(t) ==
    /\ ~ub /\ pc[t] = "enlarge" /\ it[t] > Len(m_regNodeArrays)
    /\ Step(newNode_create(Cur), t, "idle", m_mutexRegArrays, 0, FALSE)

\* reinitArrays, line 1194: the loop over m_regNodeArrays begins
ReinitStart(t) ==
    /\ ~ub /\ pc[t] = "idle" /\ NoOtherEditor(t)
    /\ m_regNodeArrays # << >>
    /\ Step(Cur, t, "reinit", m_mutexRegArrays, 1, FALSE)

\* reinitArrays, lines 1194-1195: nab->reinit(m_nodeArrayTableSize) for one
\* array of the list
Reinit(t) ==
    /\ ~ub /\ pc[t] = "reinit" /\ it[t] <= Len(m_regNodeArrays)
    /\ Step([ Cur EXCEPT !.m_regNodeArrays[it[t]] = reinit(@, m_nodeArrayTableSize) ],
            t, "reinit", m_mutexRegArrays, it[t] + 1, FALSE)

\* reinitArrays: the loop over m_regNodeArrays has reached the end
ReinitEnd(t) ==
    /\ ~ub /\ pc[t] = "reinit" /\ it[t] > Len(m_regNodeArrays)
    /\ Step(Cur, t, "idle", m_mutexRegArrays, 0, FALSE)

\* ---------------------------------------------------------- specifications
\* newNode / newEdge / delNode / delEdge only
NextBasic ==
    \/ NewNode(MaxNodes, MaxSeqId + 1)
    \/ NewEdge(MaxEdges, MaxSeqId)
    \/ NewEdgeAdjAdj(MaxEdges, MaxSeqId)
    \/ NewEdgeNodeAdj(MaxEdges, MaxSeqId)
    \/ NewEdgeAdjNode(MaxEdges, MaxSeqId)
    \/ DelNode
    \/ DelEdge

SpecBasic == Init /\ [][NextBasic]_vars

\* the operations that create, move, split, reverse, hide and copy edges
NextEdit ==
    \/ NewNode(MaxEditNodes, MaxEditNodes)
    \/ NewEdge(MaxEditEdges, MaxEditId)
    \/ NewEdgeIndex(MaxEditEdges, 0..(MaxEditId - 1))
    \/ NewEdgeAdjAdj(MaxEditEdges, MaxEditId)
    \/ NewEdgeNodeAdj(MaxEditEdges, MaxEditId)
    \/ NewEdgeAdjNode(MaxEditEdges, MaxEditId)
    \/ DelEdge
    \/ Split(MaxEditNodes, MaxEditEdges, MaxEditNodes, MaxEditId)
    \/ Unsplit
    \/ UnsplitNode
    \/ ReverseEdge
    \/ ReverseAllEdges
    \/ Move
    \/ MoveTarget
    \/ MoveTargetAdj
    \/ MoveSource
    \/ MoveSourceAdj
    \/ HideEdge
    \/ RestoreEdge
    \/ RestoreAllEdges
    \/ Assign

SpecEdit == InitQuiet /\ [][NextEdit]_vars

\* the ids an explicit-id insertion asks for
JumpIds == { MIN_NODE_TABLE_SIZE - 1, MIN_NODE_TABLE_SIZE, 2 * MIN_NODE_TABLE_SIZE }

\* the operations that move the id counters and the table sizes, on a graph
\* of at most MaxIdNodes nodes and MaxIdEdges edges
NextIds ==
    \/ NewNode(MaxIdNodes, MaxIdCount)
    \/ NewNodeIndex(MaxIdNodes, JumpIds)
    \/ NewEdge(MaxIdEdges, MaxIdCount)
    \/ NewEdgeIndex(MaxIdEdges, JumpIds)
    \/ DelNode
    \/ DelEdge
    \/ Clear
    \/ Assign
    \/ ResetEdgeIdCount
    \/ RegisterNodeArray(MaxArrays)
    \/ RegisterEdgeArray(MaxArrays)
    \/ RegisterAdjArray(MaxArrays)

SpecIds == InitQuiet /\ [][NextIds]_vars

\* newNode() up to MaxGrowNodes times on a graph with a registered node
\* array a test writes to
NextGrow ==
    \/ NewNode(MaxGrowNodes, MaxGrowNodes)
    \/ RegisterNodeArray(MaxArrays)
    \/ WriteNodeArray

SpecGrow == Init /\ [][NextGrow]_vars

\* edges made, reversed, split and merged again, every call recorded
NextSplit ==
    \/ NewNode(MaxSplitNodes, MaxSplitId)
    \/ NewEdge(MaxSplitEdges - 1, MaxSplitId)
    \/ DelEdge
    \/ ReverseEdge
    \/ Split(MaxSplitNodes, MaxSplitEdges, MaxSplitId, MaxSplitId)
    \/ Unsplit
    \/ UnsplitNode

SpecSplit == Init /\ [][NextSplit]_vars

\* edges made, deleted, hidden and restored, every call recorded
NextHide ==
    \/ NewNode(MaxHideNodes, MaxHideId)
    \/ NewEdge(MaxHideEdges, MaxHideId)
    \/ DelEdge
    \/ HideEdge
    \/ RestoreEdge
    \/ RestoreAllEdges

SpecHide == Init /\ [][NextHide]_vars

\* a graph is built, its edges reversed, and the graph assigned a copy
NextContract ==
    \/ NewNode(MaxContractNodes, MaxContractId)
    \/ NewEdge(MaxContractEdges, MaxContractId)
    \/ DelNode
    \/ DelEdge
    \/ Unsplit
    \/ Contract
SpecContract == Init /\ [][NextContract]_vars

NextSplitNode ==
    \/ NewNode(MaxSplitNodeNodes, MaxSplitNodeId)
    \/ NewEdge(MaxSplitNodeEdges, MaxSplitNodeId)
    \/ ReverseEdge
    \/ SplitNode(MaxSplitNodeNodes, MaxSplitNodeEdges, MaxSplitNodeId, MaxSplitNodeId)
SpecSplitNode == Init /\ [][NextSplitNode]_vars

NextMove ==
    \/ NewNode(MaxMoveNodes, MaxMoveNodes)
    \/ NewEdge(MaxMoveEdges, MaxMoveId)
    \/ Move
    \/ MoveTarget
    \/ MoveTargetAdj
    \/ MoveSource
    \/ MoveSourceAdj
SpecMove == Init /\ [][NextMove]_vars

\* clear() on graphs whose tables have grown and that have registered arrays
NextClear ==
    \/ NewNode(MaxClearNodes, MaxClearId)
    \/ NewNodeIndex(MaxClearNodes, JumpIds)
    \/ NewEdge(MaxClearEdges, MaxClearId)
    \/ NewEdgeIndex(MaxClearEdges, JumpIds)
    \/ RegisterNodeArray(MaxArrays)
    \/ RegisterEdgeArray(MaxArrays)
    \/ RegisterAdjArray(MaxArrays)
    \/ WriteNodeArray
    \/ Clear
SpecClear == Init /\ [][NextClear]_vars

\* CCsInfo on graphs of up to MaxCCNodes nodes and MaxCCEdges edges, to which
\* triangles on new nodes are added
NextCCs ==
    \/ NewNode(MaxCCNodes, MaxCCId)
    \/ NewEdge(MaxCCEdges, MaxCCId)
    \/ ReverseAllEdges
    \/ Split(MaxCCNodes, MaxCCEdges, MaxCCId, MaxCCId)
    \/ NewTriangle(MaxCCTriNodes, MaxCCTriEdges)
    \/ CCsInfoCall
SpecCCs == Init /\ [][NextCCs]_vars

\* threads that register and unregister node arrays while one of them adds
\* nodes or reinitializes the arrays
NextThreads ==
    \/ \E t \in Threads : RegisterLock(t)
    \/ \E t \in Threads : RegisterPush(t)
    \/ \E t \in Threads : UnregisterLock(t)
    \/ \E t \in Threads : UnregisterDel(t)
    \/ \E t \in Threads : Unlock(t)
    \/ \E t \in Threads : NewNodeNoGrow(t)
    \/ \E t \in Threads : NewNodeGrow(t)
    \/ \E t \in Threads : Enlarge(t)
    \/ \E t \in Threads : NewNodeEnd(t)
    \/ \E t \in Threads : ReinitStart(t)
    \/ \E t \in Threads : Reinit(t)
    \/ \E t \in Threads : ReinitEnd(t)
SpecThreads == InitQuiet /\ [][NextThreads]_vars

NextCopy ==
    \/ NewNode(MaxCopyNodes, MaxCopyId)
    \/ NewEdge(MaxCopyEdges, MaxCopyId)
    \/ DelEdge
    \/ ReverseEdge
    \/ Assign
    \/ ReinitStructures

SpecCopy == Init /\ [][NextCopy]_vars

\* the operations that write the id counters, every call recorded
NextCounters ==
    \/ NewNode(MaxCounterNodes, MaxCounterId)
    \/ NewNodeIndex(MaxCounterNodes, JumpIds)
    \/ NewEdge(MaxCounterEdges, MaxCounterId)
    \/ NewEdgeIndex(MaxCounterEdges, JumpIds)
    \/ DelEdge
    \/ Clear
    \/ Assign
    \/ ResetEdgeIdCount
SpecCounters == Init /\ [][NextCounters]_vars

\* edges made, deleted, hidden and restored, and the edge id counter reset
NextReset ==
    \/ NewNode(MaxResetNodes, MaxResetId)
    \/ NewEdge(MaxResetEdges, MaxResetId)
    \/ DelEdge
    \/ HideEdge
    \/ RestoreEdge
    \/ ResetEdgeIdCount
SpecReset == Init /\ [][NextReset]_vars

\* genus() on graphs whose rotations are chosen by the caller
NextGenus ==
    \/ NewNode(MaxGenusNodes, MaxGenusId)
    \/ NewEdge(MaxGenusEdges, MaxGenusId)
    \/ NewEdgeAdjAdj(MaxGenusEdges, MaxGenusId)
    \/ Genus
SpecGenus == Init /\ [][NextGenus]_vars

\* graphs with reversed edges, rebuilt from one of their components
NextInitByCC ==
    \/ NewNode(MaxInitNodes, MaxInitId)
    \/ NewEdge(MaxInitEdges, MaxInitId)
    \/ ReverseEdge
    \/ ConstructInitByCC
SpecInitByCC == Init /\ [][NextInitByCC]_vars

\* every call that makes an edge, the notifications recorded
NextNotify ==
    \/ NewNode(MaxNotifyNodes, MaxNotifyId)
    \/ NewEdge(MaxNotifyEdges, MaxNotifyId)
    \/ NewEdgeIndex(MaxNotifyEdges, 0..(MaxNotifyId - 1))
    \/ NewEdgeAdjAdj(MaxNotifyEdges, MaxNotifyId)
    \/ NewEdgeNodeAdj(MaxNotifyEdges, MaxNotifyId)
    \/ NewEdgeAdjNode(MaxNotifyEdges, MaxNotifyId)
    \/ Split(MaxNotifyNodes, MaxNotifyEdges, MaxNotifyId, MaxNotifyId)
SpecNotify == Init /\ [][NextNotify]_vars

\* edges hidden and restored while nodes are deleted and the graph cleared
NextHideDel ==
    \/ NewNode(MaxHideDelNodes, MaxHideDelId)
    \/ NewEdge(MaxHideDelEdges, MaxHideDelId)
    \/ DelNode
    \/ DelEdge
    \/ HideEdge
    \/ RestoreEdge
    \/ RestoreAllEdges
    \/ Clear
SpecHideDel == Init /\ [][NextHideDel]_vars

\* graphs with reversed edges, rebuilt from their active nodes
NextActive ==
    \/ NewNode(MaxActiveNodes, MaxActiveId)
    \/ NewEdge(MaxActiveEdges, MaxActiveId)
    \/ ReverseEdge
    \/ ConstructInitByActiveNodes
SpecActive == Init /\ [][NextActive]_vars

\* ------------------------------------------------------------------ claims
IsSelfLoop(e) == m_src[e] = m_tgt[e]

\* C1: after every call of a sequence of newNode / newEdge (self-loops and
\* parallel edges included) / delNode / delEdge on live handles,
\* consistencyCheck() returns true: the stored degrees are the numbers of
\* target-side / source-side entries of the rotation, every entry's node is
\* the node whose rotation holds it, both entries of an edge refer back to it
\* and are twins.
C1_ConsistentAfterBasicOps == consistencyCheck(Cur)

\* a node with a self-loop was deleted while another edge stays
C1_Witness ==
    /\ lastOp.op = "delNode"
    /\ Len(notes) >= 2
    /\ notes[2].kind = "edgeDeleted"
    /\ notes[2].at.m_src[notes[2].x] = notes[2].at.m_tgt[notes[2].x]
    /\ \E e \in Edges : ~IsSelfLoop(e)


AllEdges == DOMAIN e_id

\* C2 as stated: every edge with id k has a source-side entry with id 2k and
\* a target-side entry with id 2k+1.
C2_SourceEvenTargetOdd ==
    \A e \in AllEdges :
        /\ a_id[m_adjSrc[e]] = 2 * e_id[e]
        /\ a_id[m_adjTgt[e]] = 2 * e_id[e] + 1

\* C2 (amended): the two entries of every edge with id k, listed or hidden,
\* have the ids 2k and 2k+1 in one order or the other.
C2_TwinIdsDifferInLowestBit ==
    \A e \in AllEdges :
        { a_id[m_adjSrc[e]], a_id[m_adjTgt[e]] } = { 2 * e_id[e], 2 * e_id[e] + 1 }

\* a reversed edge (its source-side id is odd) beside a hidden edge
C2_Witness ==
    /\ \E e \in Edges : a_id[m_adjSrc[e]] = 2 * e_id[e] + 1
    /\ m_hiddenEdges # << >>

RECURSIVE IsPowerOfTwo(_)
IsPowerOfTwo(n) == n = 1 \/ (n > 1 /\ n % 2 = 0 /\ IsPowerOfTwo(n \div 2))

LiveEdges == { e \in Edges \cup Hidden : EndpointsLive(e) }

NodeArraysKeepMarks(arrays) ==
    \A i \in DOMAIN arrays : \A k \in DOMAIN arrays[i].data : arrays[i].data[k] = Mark(k)

\* what a newNode() call has left behind, by the number of nodes it made
GrowthOfLastNewNode ==
    IF Len(nodes) = MIN_NODE_TABLE_SIZE + 1
    THEN /\ Len(notes) = 2
         /\ notes[1].kind = "enlargeNode"
         /\ notes[1].x = 2 * MIN_NODE_TABLE_SIZE
         /\ Len(notes[1].at.nodes) = MIN_NODE_TABLE_SIZE
         /\ notes[1].at.m_nodeIdCount = MIN_NODE_TABLE_SIZE
         /\ \A i \in DOMAIN notes[1].at.m_regNodeArrays :
               notes[1].at.m_regNodeArrays[i].size = 2 * MIN_NODE_TABLE_SIZE
         /\ notes[2].kind = "nodeAdded"
         /\ n_id[notes[2].x] = MIN_NODE_TABLE_SIZE
    ELSE /\ Len(notes) = 1
         /\ notes[1].kind = "nodeAdded"

\* C5: on a graph grown from empty by newNode() alone, the node table size is
\* 16 up to sixteen nodes and 32 from the seventeenth on; the one enlarge
\* notification goes out in the call that makes the seventeenth node, before
\* that node exists and before its node-added notification; and no newNode()
\* call changes a value a registered node array holds.
C5_GrowsOnceAtSeventeenthNode ==
    /\ [](/\ m_nodeArrayTableSize =
               IF Len(nodes) <= MIN_NODE_TABLE_SIZE
               THEN MIN_NODE_TABLE_SIZE ELSE 2 * MIN_NODE_TABLE_SIZE
          /\ \A i \in DOMAIN m_regNodeArrays :
               m_regNodeArrays[i].size = m_nodeArrayTableSize
          /\ NodeArraysKeepMarks(m_regNodeArrays)
          /\ lastOp.op = "newNode" => GrowthOfLastNewNode)
    /\ [][lastOp'.op = "newNode" =>
            \A i \in DOMAIN m_regNodeArrays :
               m_regNodeArrays'[i].data = m_regNodeArrays[i].data]_vars

\* the seventeenth node has just been made on a graph whose node array,
\* registered while the graph was empty, holds a value for each of the
\* first sixteen nodes
C5_Witness ==
    /\ lastOp.op = "newNode"
    /\ Len(nodes) = MIN_NODE_TABLE_SIZE + 1
    /\ Len(m_regNodeArrays) = 1
    /\ DOMAIN m_regNodeArrays[1].data = 0..(MIN_NODE_TABLE_SIZE - 1)
    /\ DOMAIN notes[1].at.m_regNodeArrays[1].data = 0..(MIN_NODE_TABLE_SIZE - 1)

\* the nodes, edges and adjacency entries of a graph with all their fields
Structure(S) ==
    [ nodes |-> S.nodes, edges |-> S.edges, m_hiddenEdges |-> S.m_hiddenEdges,
      n_id |-> S.n_id, m_indeg |-> S.m_indeg, m_outdeg |-> S.m_outdeg,
      adjEdges |-> S.adjEdges, e_id |-> S.e_id, m_src |-> S.m_src, m_tgt |-> S.m_tgt,
      m_adjSrc |-> S.m_adjSrc, m_adjTgt |-> S.m_adjTgt, a_id |-> S.a_id,
      m_node |-> S.m_node, m_edge |-> S.m_edge, m_twin |-> S.m_twin ]

\* C6: unsplit(e, e2) right after e2 = split(e) leaves the graph as it was
\* before the split: the same nodes and edges in the same list order, the
\* same endpoints, rotations, degrees and ids, the entry in the rotation of
\* the old target with the id it had; the id counters have not decreased.
C6_SplitUnsplitRestores ==
    (lastOp.op = "unsplit" /\ snap.has) =>
        /\ Structure(Cur) = Structure(snap.first)
        /\ m_nodeIdCount > snap.first.m_nodeIdCount
        /\ m_edgeIdCount > snap.first.m_edgeIdCount

\* a self-loop beside another edge at its node was split and merged again
C6_Witness ==
    /\ lastOp.op = "unsplit" /\ snap.has
    /\ IsSelfLoop(lastOp.a)
    /\ Len(adjEdges[m_src[lastOp.a]]) >= 3

\* C7: split(e) on e = (s,t) makes one node u with indeg = outdeg = 1 and one
\* edge e2 = (u,t); e keeps its id and its source and ends at u; the rotation
\* of u is [target entry of e, source entry of e2]; the rotations and the
\* degrees of all other nodes are as before; consistencyCheck() holds.
C7_SplitEffect ==
    lastOp.op = "split" =>
        LET B  == snap.first
            e  == lastOp.a
            e2 == lastOp.b
            u  == lastOp.c
        IN  /\ u \notin Range(B.nodes) /\ nodes = Append(B.nodes, u)
            /\ e2 \notin Range(B.edges) /\ edges = Append(B.edges, e2)
            /\ m_indeg[u] = 1 /\ m_outdeg[u] = 1
            /\ m_src[e2] = u /\ m_tgt[e2] = B.m_tgt[e]
            /\ e_id[e] = B.e_id[e] /\ m_src[e] = B.m_src[e] /\ m_tgt[e] = u
            /\ adjEdges[u] = << m_adjTgt[e], m_adjSrc[e2] >>
            /\ \A v \in Range(B.nodes) :
                  /\ adjEdges[v] = B.adjEdges[v]
                  /\ m_indeg[v] = B.m_indeg[v] /\ m_outdeg[v] = B.m_outdeg[v]
            /\ consistencyCheck(Cur)

\* a self-loop was split at a node that has another edge
C7_Witness ==
    /\ lastOp.op = "split"
    /\ snap.first.m_src[lastOp.a] = snap.first.m_tgt[lastOp.a]
    /\ Len(adjEdges[m_src[lastOp.a]]) >= 3

\* C8 as stated: the entry that sat in the rotation of the old target goes
\* over to e2 and keeps its id, the new target entry of e gets a new id.
C8_TransplantedEntryKeepsId ==
    lastOp.op = "split" =>
        LET old == snap.first.m_adjTgt[lastOp.a]
        IN  /\ m_adjTgt[lastOp.b] = old
            /\ a_id[old] = snap.first.a_id[old]
            /\ a_id[m_adjTgt[lastOp.a]] # snap.first.a_id[old]

\* C8 (amended): the entry that sat in the rotation of the old target goes
\* over to e2, stays where it is in that rotation, and gets the new id
\* 2 * id(e2) + 1; the new target entry of e, seated at u, takes over the old
\* id, so that both ids of e are as before; the last notification of the call
\* is resetIndex(new id of the moved entry, its old id).
C8_TransplantedEntryGetsFreshId ==
    lastOp.op = "split" =>
        LET B   == snap.first
            e   == lastOp.a
            e2  == lastOp.b
            old == B.m_adjTgt[e]
        IN  /\ m_adjTgt[e2] = old /\ m_edge[old] = e2
            /\ m_node[old] = B.m_tgt[e]
            /\ a_id[old] = 2 * e_id[e2] + 1
            /\ a_id[old] \notin { B.a_id[a] : a \in DOMAIN B.a_id }
            /\ m_adjTgt[e] \notin DOMAIN B.a_id
            /\ a_id[m_adjTgt[e]] = B.a_id[old]
            /\ a_id[m_adjSrc[e]] = B.a_id[B.m_adjSrc[e]]
            /\ notes # << >>
            /\ Last(notes).kind = "resetIndex"
            /\ Last(notes).x = a_id[old]
            /\ Last(notes).y = B.a_id[old]

\* a reversed edge (its target entry has the even id) was split
C8_Witness ==
    /\ lastOp.op = "split"
    /\ snap.first.a_id[snap.first.m_adjTgt[lastOp.a]] = 2 * e_id[lastOp.a]
    /\ Len(edges) >= 3

\* the list s without the entries of the set X
Without(s, X) == SelectSeq(s, LAMBDA a : a \notin X)

\* the two entries of the edge e in the graph B
EntriesOf(B, e) == { B.m_adjSrc[e], B.m_adjTgt[e] }

\* the objects of the graph are what they were in B: ids, endpoints, entries
\* of the edges, nodes and twins of the entries
SameObjects(B) ==
    /\ nodes = B.nodes /\ n_id = B.n_id
    /\ e_id = B.e_id /\ m_src = B.m_src /\ m_tgt = B.m_tgt
    /\ m_adjSrc = B.m_adjSrc /\ m_adjTgt = B.m_adjTgt
    /\ a_id = B.a_id /\ m_node = B.m_node /\ m_edge = B.m_edge /\ m_twin = B.m_twin

\* the state hideEdge(e) leaves, B being the graph it was called on
HiddenFrom(B, e) ==
    /\ SameObjects(B)
    /\ edges = Without(B.edges, {e})
    /\ m_hiddenEdges = Append(B.m_hiddenEdges, e)
    /\ \A v \in Nodes :
          /\ adjEdges[v] = Without(B.adjEdges[v], EntriesOf(B, e))
          /\ m_outdeg[v] = B.m_outdeg[v] - (IF v = B.m_src[e] THEN 1 ELSE 0)
          /\ m_indeg[v] = B.m_indeg[v] - (IF v = B.m_tgt[e] THEN 1 ELSE 0)
    /\ consistencyCheck(Cur)

\* the state restoreEdge(e) leaves when it follows hideEdge(e), B being the
\* graph before the hideEdge
RestoredTo(B, e) ==
    /\ SameObjects(B)
    /\ edges = Append(Without(B.edges, {e}), e)
    /\ m_hiddenEdges = B.m_hiddenEdges
    /\ m_indeg = B.m_indeg /\ m_outdeg = B.m_outdeg
    /\ \A v \in Nodes :
          adjEdges[v] = Without(B.adjEdges[v], EntriesOf(B, e))
                        \o (IF v = m_src[e] THEN << m_adjSrc[e] >> ELSE << >>)
                        \o (IF v = m_tgt[e] THEN << m_adjTgt[e] >> ELSE << >>)
    /\ consistencyCheck(Cur)

\* C9: hideEdge(e) takes e out of the edge list and its two entries out of
\* their rotations and lowers the outdeg of the source and the indeg of the
\* target by one; restoreEdge(e) right after it puts e back with the ids,
\* endpoints and twins it had, its entries at the tail of the rotations of
\* its endpoints, the degrees as before the hideEdge; consistencyCheck()
\* holds in both states.
C9_HideRestoreRoundTrip ==
    /\ (lastOp.op = "hideEdge" /\ snap.has) => HiddenFrom(snap.last, lastOp.a)
    /\ (lastOp.op = "restoreEdge" /\ snap.has /\ lastOp.a \in Range(snap.last.edges))
          => RestoredTo(snap.last, lastOp.a)

\* a self-loop that was not the last entry pair of its node's rotation has
\* been hidden and restored while another edge is hidden
C9_Witness ==
    /\ lastOp.op = "restoreEdge" /\ snap.has
    /\ lastOp.a \in Range(snap.last.edges)
    /\ IsSelfLoop(lastOp.a)
    /\ adjEdges[m_src[lastOp.a]] # snap.last.adjEdges[m_src[lastOp.a]]
    /\ m_hiddenEdges # << >>

\* C10: restoreAllEdges() after a run of hideEdge calls that began with no
\* edge hidden leaves no hidden edge, the edges of the graph are those from
\* before the first hideEdge, and every indeg and outdeg is what it was then.
C10_RestoreAllAfterHides ==
    (lastOp.op = "restoreAllEdges" /\ snap.run) =>
        /\ m_hiddenEdges = << >>
        /\ Range(edges) = Range(snap.first.edges)
        /\ Len(edges) = Len(snap.first.edges)
        /\ m_indeg = snap.first.m_indeg
        /\ m_outdeg = snap.first.m_outdeg
        /\ consistencyCheck(Cur)

\* three edges, a self-loop and two parallel edges, were all hidden and
\* restored
C10_Witness ==
    /\ lastOp.op = "restoreAllEdges" /\ snap.run
    /\ Len(snap.first.edges) = 3
    /\ Len(snap.last.edges) = 1
    /\ \E e \in Edges : IsSelfLoop(e)
    /\ \E e1 \in Edges, e2 \in Edges :
          e1 # e2 /\ m_src[e1] = m_src[e2] /\ m_tgt[e1] = m_tgt[e2] /\ ~IsSelfLoop(e1)

\* C11: the copy of a graph G passes consistencyCheck(), has as many nodes
\* and edges as G, its i-th node has the indeg, the outdeg and the rotation
\* length of the i-th node of G, and its j-th edge joins the copies of the
\* endpoints of the j-th edge of G.
C11_CopyIsConsistentAndIsomorphic ==
    lastOp.op = "assign" =>
        LET G == snap.first
        IN  /\ consistencyCheck(Cur)
            /\ Len(nodes) = Len(G.nodes)
            /\ Len(edges) = Len(G.edges)
            /\ \A i \in 1..Len(G.nodes) :
                  /\ m_indeg[nodes[i]] = G.m_indeg[G.nodes[i]]
                  /\ m_outdeg[nodes[i]] = G.m_outdeg[G.nodes[i]]
                  /\ Len(adjEdges[nodes[i]]) = Len(G.adjEdges[G.nodes[i]])
            /\ \A j \in 1..Len(G.edges) :
                  /\ m_src[edges[j]] = nodes[Pos(G.nodes, G.m_src[G.edges[j]])]
                  /\ m_tgt[edges[j]] = nodes[Pos(G.nodes, G.m_tgt[G.edges[j]])]

\* the graph copied had a reversed self-loop, first in the rotation of its
\* node, and two parallel edges
C11_Witness ==
    /\ lastOp.op = "assign"
    /\ LET G == snap.first
       IN  /\ \E e \in Range(G.edges) :
                 /\ G.m_src[e] = G.m_tgt[e]
                 /\ G.a_id[G.m_adjSrc[e]] = 2 * G.e_id[e] + 1
                 /\ Head(G.adjEdges[G.m_src[e]]) = G.m_adjTgt[e]
           /\ \E e1 \in Range(G.edges), e2 \in Range(G.edges) :
                 /\ e1 # e2 /\ G.m_src[e1] # G.m_tgt[e1]
                 /\ G.m_src[e1] = G.m_src[e2] /\ G.m_tgt[e1] = G.m_tgt[e2]

\* the edges of the graph B that have the node v as an endpoint
EdgesAt(B, v) == { e \in Range(B.edges) : B.m_src[e] = v \/ B.m_tgt[e] = v }

\* C12: after delNode(v) the node list is the old one without v, the edge
\* list the old one without the edges at v (self-loops included), no entry
\* left in a rotation belongs to an edge at v or has a twin seated at v, and
\* every other node has its id, its old rotation without the entries of the
\* deleted edges, and its old degrees less the deleted edges; the edges that
\* stay keep their fields. (B is the graph when delNode was called: the one
\* the node-deleted notification, the first statement of delNode, saw.)
C12_DelNodeFrame ==
    lastOp.op = "delNode" =>
        LET B       == notes[1].at
            v       == lastOp.a
            Gone    == EdgesAt(B, v)
            GoneAdj == UNION { EntriesOf(B, e) : e \in Gone }
        IN  /\ v \notin Nodes /\ nodes = Without(B.nodes, {v})
            /\ edges = Without(B.edges, Gone)
            /\ \A w \in Nodes :
                  /\ n_id[w] = B.n_id[w]
                  /\ adjEdges[w] = Without(B.adjEdges[w], GoneAdj)
                  /\ m_indeg[w] = B.m_indeg[w]
                                  - Cardinality({ e \in Gone : B.m_tgt[e] = w })
                  /\ m_outdeg[w] = B.m_outdeg[w]
                                   - Cardinality({ e \in Gone : B.m_src[e] = w })
                  /\ \A i \in 1..Len(adjEdges[w]) :
                        LET a == adjEdges[w][i]
                        IN  /\ m_edge[a] \in Edges
                            /\ m_src[m_edge[a]] # v /\ m_tgt[m_edge[a]] # v
                            /\ m_node[m_twin[a]] \in Nodes
            /\ \A e \in Edges :
                  /\ e_id[e] = B.e_id[e]
                  /\ m_src[e] = B.m_src[e] /\ m_tgt[e] = B.m_tgt[e]
                  /\ m_adjSrc[e] = B.m_adjSrc[e] /\ m_adjTgt[e] = B.m_adjTgt[e]
            /\ (Gone = {} =>
                  \A w \in Nodes :
                     /\ adjEdges[w] = B.adjEdges[w]
                     /\ m_indeg[w] = B.m_indeg[w] /\ m_outdeg[w] = B.m_outdeg[w])

\* the deleted node had a self-loop and an edge to a node that stays and
\* loses an entry of its rotation
C12_Witness ==
    /\ lastOp.op = "delNode"
    /\ LET B == notes[1].at
           v == lastOp.a
       IN  /\ \E e \in EdgesAt(B, v) : B.m_src[e] = B.m_tgt[e]
           /\ \E e \in EdgesAt(B, v) : B.m_src[e] # B.m_tgt[e]
           /\ \E w \in Nodes : Len(adjEdges[w]) < Len(B.adjEdges[w])

\* the calls that deliver node-deleted and edge-deleted
Deleting == { "delNode", "delEdge", "contract", "unsplit" }

\* in the graph A the edge e is in the edge list and its two entries refer to
\* e, sit at its endpoints and in their rotations
LinkedEdge(A, e) ==
    /\ e \in Range(A.edges)
    /\ A.m_edge[A.m_adjSrc[e]] = e /\ A.m_edge[A.m_adjTgt[e]] = e
    /\ A.m_node[A.m_adjSrc[e]] = A.m_src[e] /\ A.m_node[A.m_adjTgt[e]] = A.m_tgt[e]
    /\ A.m_adjSrc[e] \in Range(A.adjEdges[A.m_src[e]])
    /\ A.m_adjTgt[e] \in Range(A.adjEdges[A.m_tgt[e]])

\* the edge e has in A the endpoints and the entries it has in B
SameEdge(A, B, e) ==
    /\ A.m_src[e] = B.m_src[e] /\ A.m_tgt[e] = B.m_tgt[e]
    /\ A.m_adjSrc[e] = B.m_adjSrc[e] /\ A.m_adjTgt[e] = B.m_adjTgt[e]

\* delNode(v) delivers node-deleted for v first and then only edge-deleted,
\* for edges that were at v
NodeDeletedFirst ==
    lastOp.op = "delNode" =>
        /\ notes[1].kind = "nodeDeleted" /\ notes[1].x = lastOp.a
        /\ \A i \in 2..Len(notes) :
              /\ notes[i].kind = "edgeDeleted"
              /\ notes[i].x \in EdgesAt(snap.last, lastOp.a)

\* C13 as stated: at every node-deleted and edge-deleted notification of
\* delNode, delEdge, contract and unsplit the element is linked exactly as
\* before the call: a deleted edge is in the edge list with the endpoints and
\* entries it had, both entries referring to it; a deleted node is in the
\* node list with the rotation it had; and delNode notifies for the node
\* first.
C13_LinkedAsBeforeTheCall ==
    /\ lastOp.op \in Deleting =>
          \A i \in 1..Len(notes) :
             LET A == notes[i].at
                 B == snap.last
                 x == notes[i].x
             IN  /\ notes[i].kind = "edgeDeleted" =>
                       LinkedEdge(A, x) /\ SameEdge(A, B, x)
                 /\ notes[i].kind = "nodeDeleted" =>
                       x \in Range(A.nodes) /\ A.adjEdges[x] = B.adjEdges[x]
    /\ NodeDeletedFirst

\* C13: at every node-deleted and edge-deleted notification the element is
\* still in its list. In delNode and delEdge a deleted edge is linked as
\* before the call and the deleted node has the rotation it had; in contract
\* the deleted node and edges are what the moves have left at the node, each
\* linked consistently; in unsplit(eIn, eOut) the node u keeps its rotation
\* and eOut its endpoints and entries, but the target entry of eOut already
\* refers to eIn. delNode notifies for the node first.
C13_StillInListWhenNotified ==
    /\ lastOp.op \in Deleting =>
          \A i \in 1..Len(notes) :
             LET A == notes[i].at
                 B == snap.last
                 x == notes[i].x
             IN  /\ notes[i].kind = "edgeDeleted" =>
                       /\ x \in Range(A.edges)
                       /\ lastOp.op # "unsplit" => LinkedEdge(A, x)
                       /\ lastOp.op # "contract" => SameEdge(A, B, x)
                       /\ lastOp.op = "unsplit" =>
                             /\ x = lastOp.b
                             /\ A.m_edge[A.m_adjSrc[x]] = x
                             /\ A.m_edge[A.m_adjTgt[x]] = lastOp.a
                 /\ notes[i].kind = "nodeDeleted" =>
                       /\ x \in Range(A.nodes)
                       /\ lastOp.op # "contract" => A.adjEdges[x] = B.adjEdges[x]
                       /\ \A k \in 1..Len(A.adjEdges[x]) :
                             A.m_node[A.adjEdges[x][k]] = x
    /\ NodeDeletedFirst

\* unsplit has delivered edge-deleted for eOut, whose target entry then
\* referred to eIn, and node-deleted for u
C13_Witness ==
    /\ lastOp.op = "unsplit"
    /\ Len(notes) = 3
    /\ notes[2].kind = "edgeDeleted" /\ notes[2].x = lastOp.b
    /\ notes[2].at.m_edge[notes[2].at.m_adjTgt[lastOp.b]] = lastOp.a
    /\ notes[3].kind = "nodeDeleted" /\ notes[3].x = lastOp.c

\* the node x after w has been merged into v
Merged(x, v, w) == IF x = w THEN v ELSE x

\* C14: contract(e) for e = (v, w), not a self-loop, removes exactly the edge
\* e and the node w; every other edge stays, with w replaced by v at its
\* endpoints (edges between v and w and self-loops at w become self-loops at
\* v); the edge count and the node count drop by exactly 1.
C14_ContractRemovesOnlyEdgeAndTarget ==
    lastOp.op = "contract" =>
        LET B == snap.first
            e == lastOp.a
            v == lastOp.b
            w == lastOp.c
        IN  /\ Nodes = Range(B.nodes) \ {w}
            /\ Edges = Range(B.edges) \ {e}
            /\ Len(nodes) = Len(B.nodes) - 1
            /\ Len(edges) = Len(B.edges) - 1
            /\ \A f \in Range(B.edges) \ {e} :
                  /\ f \in Edges
                  /\ m_src[f] = Merged(B.m_src[f], v, w)
                  /\ m_tgt[f] = Merged(B.m_tgt[f], v, w)

\* contract(e) has deleted the source v of e and left its target w
C14_Witness ==
    /\ lastOp.op = "contract"
    /\ lastOp.b \notin Nodes
    /\ lastOp.c \in Nodes

\* the entries of the rotation rot from the entry r cyclically up to, and
\* without, the entry l
Arc(rot, r, l) ==
    LET i == Pos(rot, r)
        j == Pos(rot, l)
    IN  IF i < j THEN SubSeq(rot, i, j - 1)
        ELSE SubSeq(rot, i, Len(rot)) \o SubSeq(rot, 1, j - 1)

\* C15: splitNode(adjStartLeft, adjStartRight) for two entries at a node v
\* of a graph that passes consistencyCheck makes one node w, moves exactly the entries from adjStartRight up to, and
\* without, adjStartLeft to w in their order, adds one edge from v to w
\* whose entries sit directly before adjStartLeft at v and directly before
\* adjStartRight at w, and leaves a graph that passes consistencyCheck,
\* self-loops at v included.
C15_SplitNodeMovesArcConsistently ==
    (lastOp.op = "splitNode" /\ lastOp.a # lastOp.b
                             /\ consistencyCheck(snap.first)) =>
        LET B   == snap.first
            l   == lastOp.a
            r   == lastOp.b
            w   == lastOp.c
            v   == B.m_node[l]
            arc == Arc(B.adjEdges[v], r, l)
            eN  == Last(edges)
        IN  /\ w \notin Range(B.nodes) /\ nodes = Append(B.nodes, w)
            /\ eN \notin Range(B.edges) /\ edges = Append(B.edges, eN)
            /\ m_src[eN] = v /\ m_tgt[eN] = w
            /\ adjEdges[w] = << m_adjTgt[eN] >> \o arc
            /\ adjEdges[v] = insertBefore(Without(B.adjEdges[v], Range(arc)),
                                          m_adjSrc[eN], l)
            /\ \A u \in Range(B.nodes) \ {v} : adjEdges[u] = B.adjEdges[u]
            /\ consistencyCheck(Cur)

\* splitNode on a consistent graph has moved the target entry of a
\* self-loop at v to w and left its source entry at v
C15_Witness ==
    /\ lastOp.op = "splitNode" /\ lastOp.a # lastOp.b
    /\ consistencyCheck(snap.first)
    /\ \E e \in Range(snap.first.edges) :
          /\ snap.first.m_src[e] = snap.first.m_tgt[e]
          /\ m_node[m_adjTgt[e]] = lastOp.c
          /\ m_node[m_adjSrc[e]] = snap.first.m_src[e]

\* 1 if the condition holds, else 0
One(cond) == IF cond THEN 1 ELSE 0

\* C16: reverseEdge(e) exchanges the source and the target of e and the
\* roles of its two entries; the old source loses one out-degree and gains
\* one in-degree, the old target the reverse (nothing changes for a
\* self-loop); no id, no rotation and nothing else changes; the graph passes
\* consistencyCheck; and reversing e once more gives the graph back.
C16_ReverseEdgeSwapsRoles ==
    lastOp.op = "reverseEdge" =>
        LET B == snap.first
            e == lastOp.a
            s == B.m_src[e]
            t == B.m_tgt[e]
        IN  /\ m_src[e] = t /\ m_tgt[e] = s
            /\ m_adjSrc[e] = B.m_adjTgt[e] /\ m_adjTgt[e] = B.m_adjSrc[e]
            /\ \A u \in Nodes :
                  /\ m_outdeg[u] = B.m_outdeg[u] - One(u = s) + One(u = t)
                  /\ m_indeg[u] = B.m_indeg[u] + One(u = s) - One(u = t)
            /\ (s = t => m_outdeg = B.m_outdeg /\ m_indeg = B.m_indeg)
            /\ n_id = B.n_id /\ e_id = B.e_id /\ a_id = B.a_id
            /\ nodes = B.nodes /\ edges = B.edges /\ adjEdges = B.adjEdges
            /\ m_node = B.m_node /\ m_edge = B.m_edge /\ m_twin = B.m_twin
            /\ \A f \in Edges \ {e} :
                  /\ m_src[f] = B.m_src[f] /\ m_tgt[f] = B.m_tgt[f]
                  /\ m_adjSrc[f] = B.m_adjSrc[f] /\ m_adjTgt[f] = B.m_adjTgt[f]
            /\ consistencyCheck(Cur)
            /\ reverseEdge(Cur, e) = B

\* in a graph with a self-loop, one of two parallel edges that are not
\* self-loops has been reversed
C16_Witness ==
    /\ lastOp.op = "reverseEdge"
    /\ m_src[lastOp.a] # m_tgt[lastOp.a]
    /\ \E f \in Edges \ {lastOp.a} :
          m_src[f] = m_tgt[lastOp.a] /\ m_tgt[f] = m_src[lastOp.a]
    /\ \E f \in Edges : m_src[f] = m_tgt[f]

\* the calls that move an end of an edge
SourceMoves == { "moveSource", "moveSourceAdj", "move" }
TargetMoves == { "moveTarget", "moveTargetAdj", "move" }

\* the node the source (target) of the edge of the last move was sent to
NewSource(B) ==
    IF lastOp.op = "moveSource" THEN lastOp.b
    ELSE IF lastOp.op = "moveSourceAdj" THEN B.m_node[lastOp.b]
    ELSE IF lastOp.op = "move" THEN B.m_node[lastOp.b[1]]
    ELSE B.m_src[lastOp.a]
NewTarget(B) ==
    IF lastOp.op = "moveTarget" THEN lastOp.b
    ELSE IF lastOp.op = "moveTargetAdj" THEN B.m_node[lastOp.b]
    ELSE IF lastOp.op = "move" THEN B.m_node[lastOp.c[1]]
    ELSE B.m_tgt[lastOp.a]

\* in the rotation rot the entry x is directly before / after the entry ref
Beside(rot, x, ref, dir) ==
    /\ x \in Range(rot) /\ ref \in Range(rot)
    /\ IF dir = "before" THEN Pos(rot, x) + 1 = Pos(rot, ref)
                         ELSE Pos(rot, x) = Pos(rot, ref) + 1

\* what every move leaves alone, and what it does to the degrees: B is the
\* graph before the call
MoveFrame(B) ==
    LET e     == lastOp.a
        Moved == (IF lastOp.op \in SourceMoves THEN { B.m_adjSrc[e] } ELSE {})
                 \cup (IF lastOp.op \in TargetMoves THEN { B.m_adjTgt[e] } ELSE {})
    IN  /\ nodes = B.nodes /\ edges = B.edges
        /\ n_id = B.n_id /\ e_id = B.e_id /\ a_id = B.a_id
        /\ m_twin = B.m_twin /\ m_edge = B.m_edge
        /\ m_adjSrc = B.m_adjSrc /\ m_adjTgt = B.m_adjTgt
        /\ m_src[e] = NewSource(B) /\ m_tgt[e] = NewTarget(B)
        /\ m_node[m_adjSrc[e]] = NewSource(B) /\ m_node[m_adjTgt[e]] = NewTarget(B)
        /\ \A f \in Edges \ {e} : m_src[f] = B.m_src[f] /\ m_tgt[f] = B.m_tgt[f]
        /\ \A a \in DOMAIN m_node \ Moved : m_node[a] = B.m_node[a]
        /\ \A u \in Nodes :
              /\ Without(adjEdges[u], Moved) = Without(B.adjEdges[u], Moved)
              /\ m_outdeg[u] = B.m_outdeg[u] - One(u = B.m_src[e])
                                             + One(u = NewSource(B))
              /\ m_indeg[u] = B.m_indeg[u] - One(u = B.m_tgt[e])
                                           + One(u = NewTarget(B))
        /\ consistencyCheck(Cur)

\* where moveSource and moveTarget put the moved entry: at the tail of the
\* rotation of the given node, or directly before / after the given entry
OneEndPlaced(B) ==
    LET e    == lastOp.a
        adjS == B.m_adjSrc[e]
        adjT == B.m_adjTgt[e]
    IN  /\ lastOp.op = "moveSource" => Last(adjEdges[lastOp.b]) = adjS
        /\ lastOp.op = "moveTarget" => Last(adjEdges[lastOp.b]) = adjT
        /\ lastOp.op = "moveSourceAdj" =>
              Beside(adjEdges[NewSource(B)], adjS, lastOp.b, lastOp.c)
        /\ lastOp.op = "moveTargetAdj" =>
              Beside(adjEdges[NewTarget(B)], adjT, lastOp.b, lastOp.c)

\* C17 as stated: a move relocates only the entry (entries) of e, to the tail
\* of the new node's rotation or directly before / after the given entry;
\* the old endpoint loses one degree, the new one gains one; the id of e,
\* the ids and twins of its entries, its other endpoint and every other edge
\* are unchanged, and consistencyCheck holds, also when the new node is the
\* old endpoint or a self-loop arises.
C17_MoveRelocatesOnlyEntriesOfE ==
    lastOp.op \in SourceMoves \cup TargetMoves =>
        LET B    == snap.first
            e    == lastOp.a
            adjS == B.m_adjSrc[e]
            adjT == B.m_adjTgt[e]
        IN  /\ MoveFrame(B)
            /\ OneEndPlaced(B)
            /\ lastOp.op = "move" =>
                  /\ Beside(adjEdges[NewSource(B)], adjS, lastOp.b[1], lastOp.b[2])
                  /\ Beside(adjEdges[NewTarget(B)], adjT, lastOp.c[1], lastOp.c[2])

\* C17: as above, except that move(e, adjSrc, dirSrc, adjTgt, dirTgt) puts
\* the source entry first and the target entry second: the target entry is
\* directly before / after adjTgt, the source entry directly before / after
\* adjSrc once the target entry is left out of account (the two differ when
\* adjSrc = adjTgt and dirSrc = dirTgt).
C17_MoveRelocatesEntriesInTurn ==
    lastOp.op \in SourceMoves \cup TargetMoves =>
        LET B    == snap.first
            e    == lastOp.a
            adjS == B.m_adjSrc[e]
            adjT == B.m_adjTgt[e]
        IN  /\ MoveFrame(B)
            /\ OneEndPlaced(B)
            /\ lastOp.op = "move" =>
                  /\ Beside(Without(adjEdges[NewSource(B)], {adjT}), adjS,
                            lastOp.b[1], lastOp.b[2])
                  /\ Beside(adjEdges[NewTarget(B)], adjT, lastOp.c[1], lastOp.c[2])
                  /\ (lastOp.b # lastOp.c =>
                        Beside(adjEdges[NewSource(B)], adjS, lastOp.b[1], lastOp.b[2]))

\* move has put both entries of e after the same entry, at a node that is
\* neither the old source nor the old target of e
C17_Witness ==
    /\ lastOp.op = "move"
    /\ lastOp.b = lastOp.c
    /\ snap.first.m_src[lastOp.a] # m_src[lastOp.a]
    /\ snap.first.m_tgt[lastOp.a] # m_tgt[lastOp.a]
    /\ m_src[lastOp.a] = m_tgt[lastOp.a]

\* what clear() does apart from the table sizes: the lists are empty and
\* every element freed, both id counters are 0, and the cleared notification
\* came first, with the graph as it was before the call
ClearedAll(B) ==
    /\ nodes = << >> /\ edges = << >>
    /\ DOMAIN n_id = {} /\ DOMAIN e_id = {} /\ DOMAIN a_id = {}
    /\ m_nodeIdCount = 0 /\ m_edgeIdCount = 0
    /\ notes[1].kind = "cleared" /\ notes[1].at = B
    /\ \A i \in 2..Len(notes) : notes[i].kind = "reinit"
    /\ Len(m_regNodeArrays) = Len(B.m_regNodeArrays)
    /\ Len(m_regEdgeArrays) = Len(B.m_regEdgeArrays)
    /\ Len(m_regAdjArrays) = Len(B.m_regAdjArrays)

\* every registered array is newly initialized, with the sizes n for the node
\* arrays, m for the edge arrays and 2 * m for the adjacency-entry arrays
ArraysReinitialized(n, m) ==
    /\ \A i \in DOMAIN m_regNodeArrays : m_regNodeArrays[i] = NewArray(n)
    /\ \A i \in DOMAIN m_regEdgeArrays : m_regEdgeArrays[i] = NewArray(m)
    /\ \A i \in DOMAIN m_regAdjArrays : m_regAdjArrays[i] = NewArray(2 * m)

Neighbours(G, X) ==
    X \cup { G.m_tgt[e] : e \in { f \in Range(G.edges) : G.m_src[f] \in X } }
      \cup { G.m_src[e] : e \in { f \in Range(G.edges) : G.m_tgt[f] \in X } }

\* the nodes of G joined to a node of X by a path, edges taken as undirected
RECURSIVE Connected(_, _)
Connected(G, X) ==
    IF Neighbours(G, X) = X THEN X ELSE Connected(G, Neighbours(G, X))

\* the connected components of G, as sets of nodes
Components(G) == { Connected(G, {v}) : v \in Range(G.nodes) }

\* the elements of the array a at the indices lo .. hi - 1, counted from 0
Slice(a, lo, hi) == { a[k + 1] : k \in lo..(hi - 1) }

\* G is two disjoint triangles
TwoTriangles(G) ==
    /\ Len(G.nodes) = 6 /\ Len(G.edges) = 6
    /\ Cardinality(Components(G)) = 2
    /\ \A C \in Components(G) : Cardinality(C) = 3
    /\ \A v \in Range(G.nodes) : G.m_indeg[v] + G.m_outdeg[v] = 2
    /\ \A e \in Range(G.edges) : G.m_src[e] # G.m_tgt[e]

\* C19: CCsInfo(G) numbers the connected components of G (edges taken as
\* undirected): the node ranges [startNode(c), stopNode(c)) follow one
\* another from 0 to n, and each holds exactly the nodes of one component;
\* every edge of G is exactly once in the edge array, in the range
\* [startEdge(c), stopEdge(c)) of the component of its endpoints; G is as it
\* was; and two disjoint triangles give 2 components with node and edge
\* ranges of size 3.
C19_CCsInfoPartitionsByConnectivity ==
    lastOp.op = "CCsInfo" =>
        LET G  == Cur
            I  == lastOp.a
            cs == 1..I.m_numCC
        IN  /\ Cur = snap.first
            /\ I.m_numCC = Cardinality(Components(G))
            /\ Len(I.m_startNode) = I.m_numCC + 1
            /\ Len(I.m_startEdge) = I.m_numCC + 1
            /\ I.m_startNode[1] = 0 /\ Last(I.m_startNode) = Len(G.nodes)
            /\ I.m_startEdge[1] = 0 /\ Last(I.m_startEdge) = Len(G.edges)
            /\ Len(I.m_nodes) = Len(G.nodes) /\ Range(I.m_nodes) = Range(G.nodes)
            /\ Len(I.m_edges) = Len(G.edges) /\ Range(I.m_edges) = Range(G.edges)
            /\ \A c \in cs :
                  /\ I.m_startNode[c] < I.m_startNode[c + 1]
                  /\ I.m_startEdge[c] <= I.m_startEdge[c + 1]
                  /\ Slice(I.m_nodes, I.m_startNode[c], I.m_startNode[c + 1])
                        \in Components(G)
                  /\ \A e \in Slice(I.m_edges, I.m_startEdge[c], I.m_startEdge[c + 1]) :
                        { G.m_src[e], G.m_tgt[e] }
                           \subseteq Slice(I.m_nodes, I.m_startNode[c],
                                           I.m_startNode[c + 1])
            /\ TwoTriangles(G) =>
                  /\ I.m_numCC = 2
                  /\ \A c \in cs :
                        /\ I.m_startNode[c + 1] - I.m_startNode[c] = 3
                        /\ I.m_startEdge[c + 1] - I.m_startEdge[c] = 3

\* CCsInfo has been run on two disjoint triangles whose edges are reversed
C19_Witness ==
    /\ lastOp.op = "CCsInfo"
    /\ TwoTriangles(Cur)
    /\ \A e \in Edges : a_id[m_adjSrc[e]] % 2 = 1

\* where a thread holds the mutex / is about to write to a list
Locked == { "register", "unregister", "unlock" }
Writing == { "register", "unregister" }

\* no two threads are inside registerArray / unregisterArray at once, and
\* the one that is inside holds the mutex
RegistrationsExclusive ==
    \A t \in Threads :
       pc[t] \in Locked =>
          /\ m_mutexRegArrays = t
          /\ \A u \in Threads \ {t} : pc[u] \notin Locked

\* C20 as stated: registration, unregistration and the loops that deliver
\* enlargeTable / reinit to the registered arrays exclude one another: while
\* one thread is in such a loop no other thread is inside registerArray or
\* unregisterArray, and no list is written to under a loop.
C20_FanOutExcludesRegistration ==
    /\ RegistrationsExclusive
    /\ \A t \in Threads, u \in Threads :
          (t # u /\ Iterating(t)) => pc[u] \notin Writing
    /\ ~ub

\* C20: registerArray and unregisterArray exclude one another through the
\* mutex; the loops that deliver enlargeTable / reinit take no lock and can
\* run while another thread is inside registerArray / unregisterArray.
C20_RegistrationsExcludeEachOther == RegistrationsExclusive

\* a thread has pushed an array under the mutex while another thread was in
\* the middle of the loop of newNode over the same list
C20_Witness ==
    \E t \in Threads, u \in Threads :
       /\ t # u
       /\ pc[t] = "unlock" /\ m_mutexRegArrays = t
       /\ pc[u] = "enlarge" /\ it[u] = 2
       /\ Len(m_regNodeArrays) = 2
       /\ ub

\* the step is a call newEdge(v, v)
SelfLoopMade == lastOp'.op = "newEdge" /\ lastOp'.a = lastOp'.b

\* C21: newEdge(v, v) raises indeg(v) and outdeg(v) by exactly 1 each, appends
\* to the rotation of v two distinct entries, the source entry and then the
\* target entry, that are twins and both have node v, and delivers edgeAdded
\* once.
C21_NewSelfLoop ==
    [][ SelfLoopMade =>
          LET v == lastOp'.a
              e == Last(edges')
              n == Len(adjEdges[v])
          IN  /\ m_indeg'[v] = m_indeg[v] + 1
              /\ m_outdeg'[v] = m_outdeg[v] + 1
              /\ Len(adjEdges'[v]) = n + 2
              /\ SubSeq(adjEdges'[v], 1, n) = adjEdges[v]
              /\ e \notin DOMAIN e_id
              /\ edges' = Append(edges, e)
              /\ m_src'[e] = v /\ m_tgt'[e] = v
              /\ adjEdges'[v][n + 1] = m_adjSrc'[e]
              /\ adjEdges'[v][n + 2] = m_adjTgt'[e]
              /\ m_adjSrc'[e] # m_adjTgt'[e]
              /\ { m_adjSrc'[e], m_adjTgt'[e] } \cap DOMAIN a_id = {}
              /\ m_twin'[m_adjSrc'[e]] = m_adjTgt'[e]
              /\ m_twin'[m_adjTgt'[e]] = m_adjSrc'[e]
              /\ m_node'[m_adjSrc'[e]] = v /\ m_node'[m_adjTgt'[e]] = v
              /\ m_edge'[m_adjSrc'[e]] = e /\ m_edge'[m_adjTgt'[e]] = e
              /\ Cardinality({ i \in 1..Len(notes') : notes'[i].kind = "edgeAdded" }) = 1
              /\ \A i \in 1..Len(notes') :
                    notes'[i].kind = "edgeAdded" => notes'[i].x = e
    ]_vars

\* a self-loop has been added to a node that is already the target of an
\* edge from another node
C21_Witness ==
    /\ lastOp.op = "newEdge" /\ lastOp.a = lastOp.b
    /\ Len(adjEdges[lastOp.a]) = 3
    /\ m_indeg[lastOp.a] = 2 /\ m_outdeg[lastOp.a] = 1
    /\ \E f \in Edges : m_src[f] # m_tgt[f] /\ m_tgt[f] = lastOp.a

\* the step lowers the node / the edge id counter
NodeCounterFalls == m_nodeIdCount' < m_nodeIdCount
EdgeCounterFalls == m_edgeIdCount' < m_edgeIdCount

\* the step is clear() or a reconstruction (operator= / assign)
Rebuilds == lastOp'.op \in { "clear", "assign" }

\* what a full clear or a reconstruction leaves in the counters: zero, and
\* then one more for each node and edge built
CountersRebuilt ==
    /\ lastOp'.op = "clear" => m_nodeIdCount' = 0 /\ m_edgeIdCount' = 0
    /\ lastOp'.op = "assign" =>
          m_nodeIdCount' = Len(nodes') /\ m_edgeIdCount' = Len(edges')

\* C22 as stated: neither id counter decreases from one state to the next,
\* except in a step that is a full clear or a reconstruction, which resets
\* them to zero before rebuilding.
C22_CountersFallOnlyOnRebuild ==
    [][ /\ (NodeCounterFalls \/ EdgeCounterFalls) => Rebuilds
        /\ CountersRebuilt ]_vars

\* C22 (amended): the node id counter decreases only in a full clear or a
\* reconstruction; the edge id counter decreases only in those steps and in
\* resetEdgeIdCount(maxId), which sets it to maxId + 1; a clear leaves both
\* counters at zero and a reconstruction at the numbers of nodes and edges
\* built.
C22_CountersFallOnlyOnRebuildOrReset ==
    [][ /\ NodeCounterFalls => Rebuilds
        /\ EdgeCounterFalls =>
              \/ Rebuilds
              \/ lastOp'.op = "resetEdgeIdCount" /\ m_edgeIdCount' = lastOp'.a + 1
        /\ CountersRebuilt ]_vars

\* resetEdgeIdCount has lowered the edge id counter of a graph that has an
\* edge, after ids beyond the first table were given
C22_Witness ==
    /\ lastOp.op = "resetEdgeIdCount"
    /\ snap.first.m_edgeIdCount > MIN_EDGE_TABLE_SIZE
    /\ m_edgeIdCount < snap.first.m_edgeIdCount
    /\ edges # << >>
    /\ m_nodeIdCount = snap.first.m_nodeIdCount

\* C23: resetEdgeIdCount(maxId) sets the edge id counter to maxId + 1 only
\* when no live edge, listed or hidden, has an id above maxId (a call with
\* such an edge ends in an assertion failure), so that no two live edges
\* share an id after a successful call followed by newEdge().
C23_ResetKeepsEdgeIdsUnique ==
    /\ lastOp.op = "resetEdgeIdCount" =>
          /\ m_edgeIdCount = lastOp.a + 1
          /\ \A e \in AllEdges : e_id[e] <= lastOp.a
    /\ \A e \in AllEdges, f \in AllEdges : e # f => e_id[e] # e_id[f]

\* a call resetEdgeIdCount(maxId) returned although a hidden edge has an id
\* above maxId
C23_Witness ==
    /\ lastOp.op = "resetEdgeIdCount"
    /\ m_edgeIdCount = lastOp.a + 1
    /\ \E e \in Hidden : e_id[e] > lastOp.a
    /\ \A e \in Edges : e_id[e] <= lastOp.a

\* What an observer that tracks the node and edge sets from the notifications
\* alone holds after the notifications ns, having held o before them.
RECURSIVE Observe(_, _)
Observe(o, ns) ==
    IF ns = << >> THEN o
    ELSE LET n == Head(ns)
             o1 == CASE n.kind = "cleared" -> [ nodes |-> {}, edges |-> {} ]
                    [] n.kind = "nodeAdded" -> [ o EXCEPT !.nodes = @ \cup { n.x } ]
                    [] n.kind = "edgeAdded" -> [ o EXCEPT !.edges = @ \cup { n.x } ]
                    [] n.kind = "nodeDeleted" -> [ o EXCEPT !.nodes = @ \ { n.x } ]
                    [] n.kind = "edgeDeleted" -> [ o EXCEPT !.edges = @ \ { n.x } ]
                    [] n.kind = "reInit" ->
                         [ nodes |-> Range(n.at.nodes), edges |-> Range(n.at.edges) ]
                    [] OTHER -> o
         IN  Observe(o1, Tail(ns))

\* the sets of an observer that agrees with the graph G
Observed(G) == [ nodes |-> Range(G.nodes), edges |-> Range(G.edges) ]

\* C24: after a graph with registered observers is rebuilt by assignment, the
\* observers have received the reinitialize notification as the last one of
\* the call, and an observer that tracks the node and edge sets from the
\* notifications alone agrees with the nodes and edges of the graph.
C24_ObserversReinitializedAfterAssign ==
    lastOp.op = "assign" =>
        /\ \E i \in 1..Len(notes) :
              /\ notes[i].kind = "reInit"
              /\ notes[i].at.nodes = nodes /\ notes[i].at.edges = edges
        /\ Observe(Observed(snap.first), notes) = Observed(Cur)

\* a graph with an edge has been assigned a graph with an edge: the observer
\* was told of the cleared graph and of the new nodes, and of nothing else
C24_Witness ==
    /\ lastOp.op = "assign"
    /\ snap.first.edges # << >>
    /\ edges # << >>
    /\ notes # << >> /\ notes[1].kind = "cleared"
    /\ \E i \in 1..Len(notes) : notes[i].kind = "nodeAdded"
    /\ Observe(Observed(snap.first), notes) = [ nodes |-> Range(nodes), edges |-> {} ]

\* the entries reached from the entries X by face-cycle successors
RECURSIVE Orbit(_, _)
Orbit(G, X) ==
    LET Y == X \cup { cyclicSucc(G, G.m_twin[a]) : a \in X }
    IN  IF Y = X THEN X ELSE Orbit(G, Y)

\* the entries in the rotations of G, and the orbits they lie in
HalfEdges(G) == UNION { Range(G.adjEdges[v]) : v \in Range(G.nodes) }
FaceOrbits(G) == { Orbit(G, { a }) : a \in HalfEdges(G) }

\* the graph built by newNode() three times and newEdge(0,1), newEdge(1,2),
\* newEdge(2,0), the numbers being the ids of the nodes
BuiltTriangle ==
    /\ Len(nodes) = 3 /\ Len(edges) = 3 /\ m_hiddenEdges = << >>
    /\ \A i \in 1..3 : n_id[nodes[i]] = i - 1 /\ e_id[edges[i]] = i - 1
    /\ \A i \in 1..3 :
          /\ m_src[edges[i]] = nodes[i]
          /\ m_tgt[edges[i]] = nodes[(i % 3) + 1]
    /\ adjEdges[nodes[1]] = << m_adjSrc[edges[1]], m_adjTgt[edges[3]] >>
    /\ adjEdges[nodes[2]] = << m_adjTgt[edges[1]], m_adjSrc[edges[2]] >>
    /\ adjEdges[nodes[3]] = << m_adjTgt[edges[2]], m_adjSrc[edges[3]] >>

\* C25: genus() returns 0 on the empty graph and otherwise
\* (edges - nodes - isolatedNodes - faceCycles + 2 * components) / 2, where
\* faceCycles is the number of orbits of the face-cycle successor over the
\* half-edges: the tracing loop ends, every half-edge lies in exactly one
\* orbit; on the triangle built by three newNode() and newEdge(0,1),
\* newEdge(1,2), newEdge(2,0) it counts 2 face cycles and returns 0.
C25_GenusByEulerFormula ==
    /\ ~(ub /\ lastOp.op = "genus")
    /\ lastOp.op = "genus" =>
          LET F   == Cardinality(FaceOrbits(Cur))
              iso == Cardinality({ v \in Nodes : adjEdges[v] = << >> })
              num == Len(edges) - Len(nodes) - iso - F
                     + 2 * Cardinality(Components(Cur))
          IN  /\ nodes = << >> => lastOp.a = 0
              /\ nodes # << >> => lastOp.a = (IF num >= 0 THEN num \div 2
                                                         ELSE -((-num) \div 2))
              /\ lastOp.b = F
              /\ \A a \in HalfEdges(Cur) :
                    Cardinality({ o \in FaceOrbits(Cur) : a \in o }) = 1
              /\ BuiltTriangle => lastOp.b = 2 /\ lastOp.a = 0

\* genus() has been called on the triangle
C25_Witness ==
    /\ lastOp.op = "genus"
    /\ BuiltTriangle
    /\ lastOp.a = 0 /\ lastOp.b = 2

\* the sides ("source" / "target") of the entries of the rotation of v in H,
\* position by position
Roles(H, v) ==
    [ i \in 1..Len(H.adjEdges[v]) |->
        IF H.m_adjSrc[H.m_edge[H.adjEdges[v][i]]] = H.adjEdges[v][i]
        THEN "source" ELSE "target" ]

\* the node of H with id k
NodeOfId(H, k) == CHOOSE v \in Range(H.nodes) : H.n_id[v] = k

\* every self-loop of H has its source entry in front of its target entry
LoopsSourceFirst(H) ==
    \A e \in Range(H.edges) :
        H.m_src[e] = H.m_tgt[e] =>
            Pos(H.adjEdges[H.m_src[e]], H.m_adjSrc[e])
              < Pos(H.adjEdges[H.m_src[e]], H.m_adjTgt[e])

\* constructInitByCC(info, 0, ...) was called for a connected graph
BuiltFromOnlyComponent ==
    /\ lastOp.op = "constructInitByCC"
    /\ lastOp.b.m_numCC = 1

\* the graph copy(G) builds from the graph taken before the call
CopyOfSource == copy(clear(snap.first), snap.first)

\* the built graph gives every rotation position the side that the graph H
\* gives it, the node of G at place i of the list vs being the node of H with
\* id i - 1
SameRolesAs(H, vs, sameNode) ==
    \A vG \in Range(snap.first.nodes) :
        Roles(Cur, NodeOfId(Cur, Pos(lastOp.b.m_nodes, vG) - 1))
          = Roles(H, IF sameNode THEN vG ELSE NodeOfId(H, Pos(vs, vG) - 1))

\* C26 as stated: for a connected graph G, constructInitByCC(info, 0, ...)
\* gives each position of each rotation the side copy(G) gives it (of a
\* self-loop, the entry visited first is the source side), and the result
\* passes consistencyCheck().
C26_InitByCCTieBreakOfCopy ==
    BuiltFromOnlyComponent =>
        /\ consistencyCheck(Cur)
        /\ SameRolesAs(CopyOfSource, snap.first.nodes, FALSE)
        /\ LoopsSourceFirst(Cur)

\* C26 (amended): for a connected graph G, constructInitByCC(info, 0, ...)
\* gives each position of each rotation the side the entry of G at that
\* position has, and the result passes consistencyCheck(); it agrees with
\* copy(G) when every self-loop of G has its source entry in front of its
\* target entry.
C26_InitByCCKeepsSides ==
    BuiltFromOnlyComponent =>
        /\ consistencyCheck(Cur)
        /\ SameRolesAs(snap.first, << >>, TRUE)
        /\ LoopsSourceFirst(snap.first) =>
              SameRolesAs(CopyOfSource, snap.first.nodes, FALSE)

\* a connected graph with a reversed self-loop and another edge was rebuilt
C26_Witness ==
    /\ BuiltFromOnlyComponent
    /\ ~LoopsSourceFirst(snap.first)
    /\ Len(nodes) = 2 /\ Len(edges) = 2
    /\ \E e \in Edges : m_src[e] # m_tgt[e]

\* the notifications of the last call that announce a new edge
EdgeAddedNotes == { i \in 1..Len(notes) : notes[i].kind = "edgeAdded" }

\* in the graph A the two entries of e refer back to e, are twins and sit in
\* the rotations of the endpoints of e
EntriesComplete(A, e) ==
    /\ A.m_edge[A.m_adjSrc[e]] = e
    /\ A.m_edge[A.m_adjTgt[e]] = e
    /\ A.m_twin[A.m_adjSrc[e]] = A.m_adjTgt[e]
    /\ A.m_twin[A.m_adjTgt[e]] = A.m_adjSrc[e]
    /\ A.m_adjSrc[e] \in Range(A.adjEdges[A.m_src[e]])
    /\ A.m_adjTgt[e] \in Range(A.adjEdges[A.m_tgt[e]])

\* C27: whenever edgeAdded(e) is delivered, by a newEdge variant or by split,
\* both entries of e already refer back to e, are twins and sit in the
\* rotations of its endpoints, and the twin and edge-ownership invariants
\* hold for every edge of the graph.
C27_EdgeCompleteWhenAnnounced ==
    \A i \in EdgeAddedNotes :
        /\ EntriesComplete(notes[i].at, notes[i].x)
        /\ \A f \in Range(notes[i].at.edges) : EntriesComplete(notes[i].at, f)
        /\ consistencyCheck(notes[i].at)

\* split has announced the new edge while the target entry it takes over
\* still belongs to the split edge
C27_Witness ==
    /\ lastOp.op = "split"
    /\ \E i \in EdgeAddedNotes :
          LET A == notes[i].at
              e == notes[i].x
          IN  /\ e = lastOp.b
              /\ A.m_edge[A.m_adjSrc[e]] = Nil
              /\ A.m_edge[A.m_adjTgt[e]] = lastOp.a
    /\ consistencyCheck(Cur)

\* C28: after any sequence of newNode, newEdge, hideEdge, restoreEdge,
\* delNode, delEdge and clear, both endpoints of every hidden edge are nodes
\* of the graph, so that restoreEdge and restoreAllEdges never attach an entry
\* to a deleted node.
C28_HiddenEdgesHaveLiveEndpoints ==
    /\ \A e \in Hidden : EndpointsLive(e)
    /\ ~ub

\* delNode has deleted an endpoint of a hidden edge, the other endpoint and
\* the hidden edge stay
C28_Witness ==
    /\ lastOp.op = "delNode"
    /\ \E e \in Hidden :
          /\ m_src[e] = lastOp.a
          /\ m_src[e] \notin Nodes
          /\ m_tgt[e] \in Nodes

\* in the graph B the node w has a self-loop whose target entry comes before
\* its source entry on the way round the rotation from the entry adjTgt
LoopTargetFirstFrom(B, w, adjTgt) ==
    \E l \in Range(B.edges) :
        /\ B.m_src[l] = w /\ B.m_tgt[l] = w
        /\ LET rot == B.adjEdges[w]
               n   == Len(rot)
               d(a) == (Pos(rot, a) - Pos(rot, adjTgt) + n) % n
           IN  d(B.m_adjTgt[l]) < d(B.m_adjSrc[l])

\* C29: for every edge e = (v, w) that is no self-loop, in a graph that
\* passes consistencyCheck(), and every rotation order at w, self-loops at w
\* whose target entry precedes their source entry included, contract(e) ends,
\* leaves v a node of the graph and w deleted, and leaves a graph that passes
\* consistencyCheck().
C29_ContractKeepsSourceAndConsistency ==
    (lastOp.op = "contract" /\ consistencyCheck(snap.first)) =>
        /\ ~ub
        /\ lastOp.b \in Nodes
        /\ lastOp.c \notin Nodes
        /\ consistencyCheck(Cur)

\* contract(e) was called on a consistent graph in which the target w of e
\* has a self-loop with its target entry first; the node returned, v, is
\* deleted and w is still a node
C29_Witness ==
    /\ lastOp.op = "contract"
    /\ consistencyCheck(snap.first)
    /\ LoopTargetFirstFrom(snap.first, lastOp.c, snap.first.m_adjTgt[lastOp.a])
    /\ lastOp.b \notin Nodes
    /\ lastOp.c \in Nodes
    /\ notes[1].kind = "nodeDeleted" /\ notes[1].x = lastOp.b

\* the edges of B whose two endpoints are both in the set A
EdgesWithin(B, A) ==
    { e \in Range(B.edges) : B.m_src[e] \in A /\ B.m_tgt[e] \in A }

\* constructInitByActiveNodes was called on a graph that passes
\* consistencyCheck()
BuiltFromActiveNodes ==
    /\ lastOp.op = "constructInitByActiveNodes"
    /\ consistencyCheck(snap.first)

\* C30: for every source graph and every list of active nodes, active nodes
\* with self-loops included, the graph built by constructInitByActiveNodes has
\* one node for each active node and one edge for each source edge with both
\* endpoints active, and passes consistencyCheck(): the stored indeg and
\* outdeg of each new node are the numbers of target-side and source-side
\* entries placed in its rotation.
C30_ActiveNodesGraphConsistent ==
    BuiltFromActiveNodes =>
        /\ Len(nodes) = Cardinality(lastOp.a)
        /\ Len(edges) = Cardinality(EdgesWithin(snap.first, lastOp.a))
        /\ \A v \in Nodes :
              /\ m_indeg[v] = Cardinality({ e \in Edges : m_tgt[e] = v })
              /\ m_outdeg[v] = Cardinality({ e \in Edges : m_src[e] = v })
        /\ consistencyCheck(Cur)

\* the graph was built from two of three nodes, one of which has a self-loop
\* and an edge to the other: it stores out-degree 3 and in-degree 0 for the
\* node with the self-loop
C30_Witness ==
    /\ BuiltFromActiveNodes
    /\ Len(nodes) = 2 /\ Len(edges) = 2
    /\ \E e \in Edges : m_src[e] = m_tgt[e]
    /\ \E e \in Edges : m_src[e] # m_tgt[e]
    /\ Cardinality(lastOp.a) < Len(snap.first.nodes)
    /\ \E v \in Nodes : m_outdeg[v] = 3 /\ m_indeg[v] = 0 /\ Len(adjEdges[v]) = 3

====
